---- MODULE Spec2Model ----
(***************************************************************************)
(* Model of the CBMC verification-session controller                       *)
(* (src/cbmc/cbmc_parse_options.cpp): command-line validation              *)
(* (get_command_line_options), mode dispatch (doit, get_goto_program),     *)
(* the transformation pipeline (process_goto_program) and the selection    *)
(* of the verifier object.                                                 *)
(*                                                                         *)
(* The command line is a sequence of flags in argv order.  Calls into      *)
(* collaborators (front end, passes, verifiers) are recorded, in call      *)
(* order, in the log `trace`; their results are inputs, read from `env`    *)
(* the first time the code consults them.                                  *)
(***************************************************************************)
EXTENDS Integers, Sequences, FiniteSets, TLC

VARIABLES
  cmdline,    \* cmdlinet: the flags given, in the order they were given
  env,        \* results of the collaborators consulted so far
  pc,         \* position of the session inside doit()
  options,    \* optionst: option name -> stored string
  mode,       \* the branch of doit()/get_goto_program() the session took
  trace,      \* collaborator calls made so far, in order
  verifier,   \* std::unique_ptr<goto_verifiert> verifier of doit()
  exit_code,  \* value returned by doit() or passed to exit()
  run,        \* 1 for the first session, 2 for its repetition
  prev        \* what the first session did, kept for the repetition

vars == <<cmdline, env, pc, options, mode, trace, verifier, exit_code,
          run, prev>>

----------------------------------------------------------------------------
(* Bounds *)

\* largest number of flags on a command line of Spec
MaxFlags == 3

\* largest number of flags on a command line of SpecArgv (every order)
MaxArgv == 2

----------------------------------------------------------------------------
(* Command line *)

\* the flags the sessions of this model are given
SessionFlags ==
  << "version", "module", "gen-interface", "test-preprocessor", "preprocess",
     "show-parse-tree", "show-symbol-table", "show-loops",
     "show-goto-functions", "list-goto-functions", "show-claims",
     "show-properties", "program-only", "show-vcc", "dimacs", "outfile",
     "cover", "stop-on-fail", "paths", "localize-faults", "claim",
     "property", "string-abstraction", "nondet-static",
     "drop-unused-functions", "reachability-slice", "reachability-slice-fb",
     "full-slice", "unwinding-assertions", "partial-loops",
     "max-field-sensitivity-array-size", "no-array-field-sensitivity",
     "show-symex-strategies" >>

FlagSet == {SessionFlags[i] : i \in DOMAIN SessionFlags}

\* cmdlinet::isset
IsSet(cl, f) == \E i \in DOMAIN cl : cl[i] = f

isset(f) == IsSet(cmdline, f)

\* cmdlinet::get_value / get_values: the argument of a flag
ArgValue == "arg"

RECURSIVE SubsetsUpTo(_, _)
SubsetsUpTo(S, n) ==
  IF n = 0 THEN {{}}
  ELSE LET P == SubsetsUpTo(S, n - 1)
       IN  P \cup {p \cup {x} : p \in P, x \in S}

Min(S) == CHOOSE m \in S : \A x \in S : m <= x

\* the flags numbered by S, in the order of SessionFlags
RECURSIVE InListOrder(_)
InListOrder(S) ==
  IF S = {} THEN << >>
  ELSE << SessionFlags[Min(S)] >> \o InListOrder(S \ {Min(S)})

\* one command line per set of at most MaxFlags flags
CommandLines ==
  {InListOrder(S) : S \in SubsetsUpTo(DOMAIN SessionFlags, MaxFlags)}

\* every command line of at most MaxArgv flags, in every order
ArgvCommandLines == UNION {[1..n -> FlagSet] : n \in 0..MaxArgv}

----------------------------------------------------------------------------
(* optionst *)

\* optionst::is_set
is_set(opts, o) == o \in DOMAIN opts

\* optionst::get_option: the empty string when the option is not set
get_option(opts, o) == IF o \in DOMAIN opts THEN opts[o] ELSE ""

\* optionst::get_bool_option
get_bool_option(opts, o) == get_option(opts, o) \notin {"", "0"}

\* optionst::set_option
set_option(opts, o, v) ==
  [x \in DOMAIN opts \cup {o} |-> IF x = o THEN v ELSE opts[x]]

\* the stored form of a bool
Bool(b) == IF b THEN "1" ELSE "0"

NoOptions == [x \in {} |-> ""]

Max(S) == CHOOSE m \in S : \A x \in S : m >= x

\* apply the set_option calls of `steps` whose condition holds, in order:
\* an option holds the value of the last call that set it
ApplySettings(opts, steps) ==
  LET made == {i \in DOMAIN steps : steps[i][1]}
      last(o) == Max({i \in made : steps[i][2] = o})
  IN  [o \in DOMAIN opts \cup {steps[i][2] : i \in made} |->
         IF \E i \in made : steps[i][2] = o
           THEN steps[last(o)][3]
           ELSE opts[o]]

set_default_options ==
  ApplySettings(NoOptions,
    << <<TRUE, "assertions", "1">>,
       <<TRUE, "assumptions", "1">>,
       <<TRUE, "built-in-assertions", "1">>,
       <<TRUE, "pretty-names", "1">>,
       <<TRUE, "propagation", "1">>,
       <<TRUE, "sat-preprocessor", "1">>,
       <<TRUE, "simple-slice", "1">>,
       <<TRUE, "simplify", "1">>,
       <<TRUE, "simplify-if", "1">>,
       <<TRUE, "show-goto-symex-steps", "0">>,
       <<TRUE, "arrays-uf", "auto">> >>)

----------------------------------------------------------------------------
(* get_command_line_options *)

\* ui_message_handlert::get_ui, as selected by the flags xml-ui and json-ui
get_ui(cl) ==
  IF IsSet(cl, "xml-ui") THEN "XML_UI"
  ELSE IF IsSet(cl, "json-ui") THEN "JSON_UI"
  ELSE "PLAIN"

\* parse_path_strategy_options: `paths` selects single-path exploration
parse_path_strategy_options(cl) ==
  << <<IsSet(cl, "paths"), "paths", "1">> >>

\* parse_cover_options: the coverage criteria given with `cover`
parse_cover_options(cl) ==
  << <<IsSet(cl, "cover"), "cover", ArgValue>> >>

\* MutuallyExclusive without the check of partial-loops against
\* unwinding-assertions
MutuallyExclusive_NoPartialLoops(cl) ==
  IF IsSet(cl, "cover") /\ IsSet(cl, "unwinding-assertions")
    THEN "--cover and --unwinding-assertions must not be given together"
  ELSE IF IsSet(cl, "no-array-field-sensitivity")
          /\ IsSet(cl, "max-field-sensitivity-array-size")
    THEN "--no-array-field-sensitivity and --max-field-sensitivity-array-size must not be given together"
  ELSE IF IsSet(cl, "reachability-slice")
          /\ IsSet(cl, "reachability-slice-fb")
    THEN "--reachability-slice and --reachability-slice-fb must not be given together"
  ELSE ""

\* MutuallyExclusive with the name of the forward-backward slicing flag
\* misspelt, so that the check never sees the flag
MutuallyExclusive_SliceTypo(cl) ==
  IF IsSet(cl, "cover") /\ IsSet(cl, "unwinding-assertions")
    THEN "--cover and --unwinding-assertions must not be given together"
  ELSE IF IsSet(cl, "no-array-field-sensitivity")
          /\ IsSet(cl, "max-field-sensitivity-array-size")
    THEN "--no-array-field-sensitivity and --max-field-sensitivity-array-size must not be given together"
  ELSE IF IsSet(cl, "partial-loops") /\ IsSet(cl, "unwinding-assertions")
    THEN "--partial-loops and --unwinding-assertions must not be given together"
  ELSE IF IsSet(cl, "reachability-slice")
          /\ IsSet(cl, "reachability-slice-bf")
    THEN "--reachability-slice and --reachability-slice-fb must not be given together"
  ELSE ""

\* the checks of get_command_line_options for options that must not be
\* given together: the message of the first check that fires, or ""
MutuallyExclusive(cl) ==
  IF IsSet(cl, "cover") /\ IsSet(cl, "unwinding-assertions")
    THEN "--cover and --unwinding-assertions must not be given together"
  ELSE IF IsSet(cl, "no-array-field-sensitivity")
          /\ IsSet(cl, "max-field-sensitivity-array-size")
    THEN "--no-array-field-sensitivity and --max-field-sensitivity-array-size must not be given together"
  ELSE IF IsSet(cl, "partial-loops") /\ IsSet(cl, "unwinding-assertions")
    THEN "--partial-loops and --unwinding-assertions must not be given together"
  ELSE IF IsSet(cl, "reachability-slice")
          /\ IsSet(cl, "reachability-slice-fb")
    THEN "--reachability-slice and --reachability-slice-fb must not be given together"
  ELSE ""

\* the early exits of get_command_line_options, in the order of the code:
\* the message logged and the status passed to exit(), or "none"
ValidationExit(cl, config_set) ==
  IF config_set = "error"
    THEN [log |-> "usage_error", exit |-> "CPROVER_EXIT_USAGE_ERROR"]
  ELSE IF MutuallyExclusive(cl) # ""
    THEN [log |-> MutuallyExclusive(cl), exit |-> "CPROVER_EXIT_USAGE_ERROR"]
  ELSE IF IsSet(cl, "show-symex-strategies")
    THEN [log |-> "show_path_strategies", exit |-> "CPROVER_EXIT_SUCCESS"]
  ELSE IF IsSet(cl, "slice-by-trace")
    THEN [log |-> "--slice-by-trace has been removed",
          exit |-> "CPROVER_EXIT_USAGE_ERROR"]
  ELSE IF IsSet(cl, "smt1")
    THEN [log |-> "--smt1 is no longer supported",
          exit |-> "CPROVER_EXIT_USAGE_ERROR"]
  ELSE [log |-> "", exit |-> "none"]

\* bool solver_set of get_command_line_options
solver_set(cl) ==
  \E f \in {"boolector", "cprover-smt2", "mathsat", "cvc4", "yices", "z3"} :
    IsSet(cl, f)

\* set_option(f, cmdline.get_value(f)) under if(cmdline.isset(f))
Valued(cl, f) == <<IsSet(cl, f), f, ArgValue>>

\* set_option(f, true) under if(cmdline.isset(f))
Flag(cl, f) == <<IsSet(cl, f), f, "1">>

\* set_option(o, false) under if(cmdline.isset(f))
Clears(cl, f, o) == <<IsSet(cl, f), o, "0">>

\* a backend solver flag: the solver and smt2
Solver(cl, f) == << Flag(cl, f), <<IsSet(cl, f), "smt2", "1">> >>

\* StopOnFailSetting without the test of outfile
StopOnFailSetting_NoOutfile(cl) ==
  << << IsSet(cl, "stop-on-fail") \/ IsSet(cl, "dimacs"),
        "stop-on-fail", "1" >> >>

\* if(stop-on-fail || dimacs || outfile) set_option("stop-on-fail", true)
StopOnFailSetting(cl) ==
  << << IsSet(cl, "stop-on-fail") \/ IsSet(cl, "dimacs")
          \/ IsSet(cl, "outfile"),
        "stop-on-fail", "1" >> >>

\* TraceSetting without the test of cover beside the report format
TraceSetting_IgnoresCover(cl) ==
  << << IsSet(cl, "trace") \/ IsSet(cl, "compact-trace")
          \/ IsSet(cl, "stack-trace") \/ IsSet(cl, "stop-on-fail")
          \/ get_ui(cl) # "PLAIN",
        "trace", "1" >> >>

\* if(trace || compact-trace || stack-trace || stop-on-fail ||
\*    (get_ui() != PLAIN && !cover)) set_option("trace", true)
TraceSetting(cl) ==
  << << IsSet(cl, "trace") \/ IsSet(cl, "compact-trace")
          \/ IsSet(cl, "stack-trace") \/ IsSet(cl, "stop-on-fail")
          \/ (get_ui(cl) # "PLAIN" /\ ~IsSet(cl, "cover")),
        "trace", "1" >> >>

\* SolverSettings with the default chosen without looking at solver_set
SolverSettings_DefaultAlways(cl) ==
     Solver(cl, "boolector")
  \o Solver(cl, "cprover-smt2")
  \o Solver(cl, "mathsat")
  \o Solver(cl, "cvc4")
  \o Solver(cl, "yices")
  \o Solver(cl, "z3")
  \o << << IsSet(cl, "smt2") /\ IsSet(cl, "outfile"), "generic", "1" >>,
        << IsSet(cl, "smt2") /\ ~IsSet(cl, "outfile"), "z3", "1" >> >>

\* the solver flags, then the default when smt2 is given without a solver
SolverSettings(cl) ==
     Solver(cl, "boolector")
  \o Solver(cl, "cprover-smt2")
  \o Solver(cl, "mathsat")
  \o Solver(cl, "cvc4")
  \o Solver(cl, "yices")
  \o Solver(cl, "z3")
  \o << << IsSet(cl, "smt2") /\ ~solver_set(cl) /\ IsSet(cl, "outfile"),
           "generic", "1" >>,
        << IsSet(cl, "smt2") /\ ~solver_set(cl) /\ ~IsSet(cl, "outfile"),
           "z3", "1" >> >>

\* the set_option calls of get_command_line_options, in the order of the code
OptionSettings(cl) ==
     << Valued(cl, "function"),
        Valued(cl, "max-field-sensitivity-array-size"),
        Flag(cl, "no-array-field-sensitivity"),
        Flag(cl, "full-slice") >>
  \o parse_path_strategy_options(cl)
  \o << Flag(cl, "program-only"),
        Flag(cl, "show-vcc") >>
  \o parse_cover_options(cl)
  \o << Valued(cl, "mm"),
        Valued(cl, "symex-complexity-limit"),
        Valued(cl, "symex-complexity-failed-child-loops-limit"),
        Valued(cl, "property"),
        Flag(cl, "drop-unused-functions"),
        Flag(cl, "string-abstraction"),
        Flag(cl, "reachability-slice-fb"),
        Flag(cl, "reachability-slice"),
        Flag(cl, "nondet-static"),
        Clears(cl, "no-simplify", "simplify") >>
  \o StopOnFailSetting(cl)
  \o TraceSetting(cl)
  \o << Flag(cl, "localize-faults"),
        Valued(cl, "unwind"),
        Valued(cl, "depth"),
        Valued(cl, "debug-level"),
        Valued(cl, "unwindset"),
        Clears(cl, "no-propagation", "propagation"),
        << TRUE, "self-loops-to-assumptions",
           Bool(~IsSet(cl, "no-self-loops-to-assumptions")) >>,
        Clears(cl, "no-assertions", "assertions"),
        Clears(cl, "no-assumptions", "assumptions"),
        Valued(cl, "error-label"),
        Flag(cl, "unwinding-assertions"),
        <<IsSet(cl, "unwinding-assertions"), "paths-symex-explore-all", "1">>,
        Flag(cl, "partial-loops"),
        Flag(cl, "slice-formula"),
        Clears(cl, "no-simplify-if", "simplify-if"),
        <<IsSet(cl, "arrays-uf-always"), "arrays-uf", "always">>,
        << ~IsSet(cl, "arrays-uf-always") /\ IsSet(cl, "arrays-uf-never"),
           "arrays-uf", "never" >>,
        Flag(cl, "dimacs"),
        <<IsSet(cl, "refine-arrays"), "refine", "1">>,
        Flag(cl, "refine-arrays"),
        <<IsSet(cl, "refine-arithmetic"), "refine", "1">>,
        Flag(cl, "refine-arithmetic"),
        Flag(cl, "refine"),
        <<IsSet(cl, "refine"), "refine-arrays", "1">>,
        <<IsSet(cl, "refine"), "refine-arithmetic", "1">>,
        Flag(cl, "refine-strings"),
        << IsSet(cl, "refine-strings"), "string-printable",
           Bool(IsSet(cl, "string-printable")) >>,
        Valued(cl, "max-node-refinement"),
        Flag(cl, "smt2"),
        Flag(cl, "fpa") >>
  \o SolverSettings(cl)
  \o << Flag(cl, "beautify"),
        Clears(cl, "no-sat-preprocessor", "sat-preprocessor"),
        Clears(cl, "no-pretty-names", "pretty-names"),
        Valued(cl, "outfile"),
        Valued(cl, "graphml-witness"),
        <<IsSet(cl, "graphml-witness"), "stop-on-fail", "1">>,
        <<IsSet(cl, "graphml-witness"), "trace", "1">>,
        Valued(cl, "symex-coverage-report"),
        << IsSet(cl, "symex-coverage-report"),
           "paths-symex-explore-all", "1" >>,
        Flag(cl, "validate-ssa-equation"),
        Flag(cl, "validate-goto-model"),
        Flag(cl, "show-goto-symex-steps") >>

\* get_command_line_options with set_default_options called after the
\* flags have been read, so that a default overwrites what a flag has set
get_command_line_options_DefaultsLast(cl) ==
  LET given == ApplySettings(NoOptions, OptionSettings(cl))
  IN  [o \in DOMAIN given \cup DOMAIN set_default_options |->
         IF o \in DOMAIN set_default_options
           THEN set_default_options[o]
           ELSE given[o]]

\* the optionst that get_command_line_options fills when it returns
get_command_line_options(cl) ==
  ApplySettings(set_default_options, OptionSettings(cl))

----------------------------------------------------------------------------
(* process_goto_program *)

\* `calls` when the condition holds, nothing otherwise
When(b, calls) == IF b THEN calls ELSE << >>

\* BeforeCover with remove_function_pointers moved before the two calls of
\* link_to_library
BeforeCover_PointersBeforeLibrary(opts) ==
     << "remove_asm",
        "remove_function_pointers",
        "link_to_library(cprover_cpp_library_factory)",
        "link_to_library(cprover_c_library_factory)" >>
  \o When(get_bool_option(opts, "string-abstraction"),
          << "string_instrumentation" >>)
  \o << "mm_io",
        "instrument_preconditions",
        "remove_returns",
        "remove_vector",
        "remove_complex",
        "rewrite_union",
        "goto_check",
        "adjust_float_expressions" >>
  \o When(get_bool_option(opts, "nondet-static"), << "nondet_static" >>)
  \o When(get_bool_option(opts, "string-abstraction"),
          << "string_abstraction" >>)
  \o << "add_failed_symbols",
        "goto_functions.update",
        "goto_functions.compute_loop_numbers" >>
  \o When(get_bool_option(opts, "drop-unused-functions"),
          << "remove_unused_functions" >>)
  \o << "remove_skip" >>

\* BeforeCover with string_abstraction called under the option
\* nondet-static, the condition of the block before it
BeforeCover_AbstractionUnderNondet(opts) ==
     << "remove_asm",
        "link_to_library(cprover_cpp_library_factory)",
        "link_to_library(cprover_c_library_factory)" >>
  \o When(get_bool_option(opts, "string-abstraction"),
          << "string_instrumentation" >>)
  \o << "remove_function_pointers",
        "mm_io",
        "instrument_preconditions",
        "remove_returns",
        "remove_vector",
        "remove_complex",
        "rewrite_union",
        "goto_check",
        "adjust_float_expressions" >>
  \o When(get_bool_option(opts, "nondet-static"), << "nondet_static" >>)
  \o When(get_bool_option(opts, "nondet-static"),
          << "string_abstraction" >>)
  \o << "add_failed_symbols",
        "goto_functions.update",
        "goto_functions.compute_loop_numbers" >>
  \o When(get_bool_option(opts, "drop-unused-functions"),
          << "remove_unused_functions" >>)
  \o << "remove_skip" >>

\* the calls of process_goto_program up to coverage instrumentation
BeforeCover(opts) ==
     << "remove_asm",
        "link_to_library(cprover_cpp_library_factory)",
        "link_to_library(cprover_c_library_factory)" >>
  \o When(get_bool_option(opts, "string-abstraction"),
          << "string_instrumentation" >>)
  \o << "remove_function_pointers",
        "mm_io",
        "instrument_preconditions",
        "remove_returns",
        "remove_vector",
        "remove_complex",
        "rewrite_union",
        "goto_check",
        "adjust_float_expressions" >>
  \o When(get_bool_option(opts, "nondet-static"), << "nondet_static" >>)
  \o When(get_bool_option(opts, "string-abstraction"),
          << "string_abstraction" >>)
  \o << "add_failed_symbols",
        "goto_functions.update",
        "goto_functions.compute_loop_numbers" >>
  \o When(get_bool_option(opts, "drop-unused-functions"),
          << "remove_unused_functions" >>)
  \o << "remove_skip" >>

\* FromLabel with label_properties moved after the slicers
FromLabel_LabelAfterSlicing(opts) ==
     When(get_bool_option(opts, "reachability-slice-fb"),
          IF is_set(opts, "property")
            THEN << "reachability_slicer(property, fb)" >>
            ELSE << "reachability_slicer(fb)" >>)
  \o When(get_bool_option(opts, "reachability-slice"),
          IF is_set(opts, "property")
            THEN << "reachability_slicer(property)" >>
            ELSE << "reachability_slicer" >>)
  \o When(get_bool_option(opts, "full-slice"),
          IF is_set(opts, "property")
            THEN << "property_slicer" >>
            ELSE << "full_slicer" >>)
  \o << "label_properties" >>
  \o << "remove_skip" >>

\* FromLabel with the plain reachability slicer called without the
\* property list
FromLabel_PlainIgnoresProperty(opts) ==
     << "label_properties" >>
  \o When(get_bool_option(opts, "reachability-slice-fb"),
          IF is_set(opts, "property")
            THEN << "reachability_slicer(property, fb)" >>
            ELSE << "reachability_slicer(fb)" >>)
  \o When(get_bool_option(opts, "reachability-slice"),
          << "reachability_slicer" >>)
  \o When(get_bool_option(opts, "full-slice"),
          IF is_set(opts, "property")
            THEN << "property_slicer" >>
            ELSE << "full_slicer" >>)
  \o << "remove_skip" >>

\* FromLabel with the properties labelled again after the slicers
FromLabel_LabelsAgain(opts) ==
     << "label_properties" >>
  \o When(get_bool_option(opts, "reachability-slice-fb"),
          IF is_set(opts, "property")
            THEN << "reachability_slicer(property, fb)" >>
            ELSE << "reachability_slicer(fb)" >>)
  \o When(get_bool_option(opts, "reachability-slice"),
          IF is_set(opts, "property")
            THEN << "reachability_slicer(property)" >>
            ELSE << "reachability_slicer" >>)
  \o When(get_bool_option(opts, "full-slice"),
          IF is_set(opts, "property")
            THEN << "property_slicer" >>
            ELSE << "full_slicer" >>)
  \o << "label_properties", "remove_skip" >>

\* the calls of process_goto_program from label_properties on
FromLabel(opts) ==
     << "label_properties" >>
  \o When(get_bool_option(opts, "reachability-slice-fb"),
          IF is_set(opts, "property")
            THEN << "reachability_slicer(property, fb)" >>
            ELSE << "reachability_slicer(fb)" >>)
  \o When(get_bool_option(opts, "reachability-slice"),
          IF is_set(opts, "property")
            THEN << "reachability_slicer(property)" >>
            ELSE << "reachability_slicer" >>)
  \o When(get_bool_option(opts, "full-slice"),
          IF is_set(opts, "property")
            THEN << "property_slicer" >>
            ELSE << "full_slicer" >>)
  \o << "remove_skip" >>

\* process_goto_program without the return on a failure of
\* instrument_cover_goals
process_goto_program_IgnoresFailure(opts, cover_result) ==
  IF is_set(opts, "cover")
    THEN [calls |-> BeforeCover(opts)
                      \o << "get_cover_config", "instrument_cover_goals" >>
                      \o FromLabel(opts),
          ret |-> FALSE]
    ELSE [calls |-> BeforeCover(opts) \o FromLabel(opts), ret |-> FALSE]

\* process_goto_program: the calls it makes and the bool it returns (true on
\* failure); cover_result is what instrument_cover_goals returns when called
process_goto_program(opts, cover_result) ==
  IF is_set(opts, "cover")
    THEN IF cover_result = "error"
           THEN [calls |-> BeforeCover(opts)
                             \o << "get_cover_config",
                                   "instrument_cover_goals" >>,
                 ret |-> TRUE]
           ELSE [calls |-> BeforeCover(opts)
                             \o << "get_cover_config",
                                   "instrument_cover_goals" >>
                             \o FromLabel(opts),
                 ret |-> FALSE]
    ELSE [calls |-> BeforeCover(opts) \o FromLabel(opts), ret |-> FALSE]

----------------------------------------------------------------------------
(* Collaborators *)

\* what each collaborator can answer
Answers ==
  [ config_set             |-> {"ok", "error"},
    args                   |-> {"0", "1", "2"},
    file                   |-> {"unopenable", "goto_binary",
                                "unknown_language", "bad_source", "source"},
    null_language          |-> {"crash", "no_effect"},
    test_c_preprocessor    |-> {"ok", "failed"},
    instrument_cover_goals |-> {"ok", "error"},
    verifier               |-> {"PASS", "FAIL", "ERROR", "UNKNOWN"} ]

\* the collaborator k answers v: its first answer, or the one it gave before
Answer(k, v) == v \in Answers[k] /\ env[k] \in {"unread", v}

Nothing == [k \in DOMAIN Answers |-> "unread"]

----------------------------------------------------------------------------
(* doit: the branches *)

\* the branch doit takes between get_command_line_options and
\* get_goto_program
DoitBranch(cl) ==
  IF IsSet(cl, "module") \/ IsSet(cl, "gen-interface") THEN "module"
  ELSE IF IsSet(cl, "test-preprocessor") THEN "test-preprocessor"
  ELSE IF IsSet(cl, "preprocess") THEN "preprocess"
  ELSE IF IsSet(cl, "show-parse-tree") THEN "show-parse-tree"
  ELSE "get_goto_program"

\* ProcessedBranch with the test of show-goto-functions moved before the
\* test of show-loops
ProcessedBranch_GotoFunctionsFirst(cl) ==
  IF IsSet(cl, "show-goto-functions") \/ IsSet(cl, "list-goto-functions")
    THEN "show-goto-functions"
  ELSE IF IsSet(cl, "show-loops") THEN "show-loops"
  ELSE IF IsSet(cl, "show-claims") \/ IsSet(cl, "show-properties")
    THEN "show-properties"
  ELSE "set_properties"

\* the branch taken once process_goto_program has succeeded: the rest of
\* get_goto_program, then show_properties in doit
ProcessedBranch(cl) ==
  IF IsSet(cl, "show-loops") THEN "show-loops"
  ELSE IF IsSet(cl, "show-goto-functions") \/ IsSet(cl, "list-goto-functions")
    THEN "show-goto-functions"
  ELSE IF IsSet(cl, "show-claims") \/ IsSet(cl, "show-properties")
    THEN "show-properties"
  ELSE "set_properties"

\* the branch doit takes after set_properties
VerifyBranch(opts) ==
  IF get_bool_option(opts, "program-only") \/ get_bool_option(opts, "show-vcc")
    THEN "program-only"
  ELSE IF get_bool_option(opts, "dimacs") \/ get_option(opts, "outfile") # ""
    THEN "outfile"
  ELSE IF is_set(opts, "cover") THEN "cover"
  ELSE "verify"

\* the verifier object doit creates for program-only and show-vcc
ProgramOnlyVerifier(opts) ==
  IF get_bool_option(opts, "paths")
    THEN "all_properties_verifiert<single_path_symex_only_checkert>"
    ELSE "all_properties_verifiert<multi_path_symex_only_checkert>"

\* the verifier object doit creates for dimacs and outfile
OutfileVerifier(opts) ==
  IF get_bool_option(opts, "paths")
    THEN "stop_on_fail_verifiert<single_path_symex_checkert>"
    ELSE "stop_on_fail_verifiert<multi_path_symex_checkert>"

\* the verifier object doit creates for cover
CoverVerifier ==
  "cover_goals_verifier_with_trace_storaget<multi_path_symex_checkert>"

\* SelectVerifier without the test of localize-faults in the stop-on-fail
\* branch
SelectVerifier_NoLocalization(opts) ==
  IF get_bool_option(opts, "stop-on-fail") /\ get_bool_option(opts, "paths")
    THEN "stop_on_fail_verifiert<single_path_symex_checkert>"
  ELSE IF get_bool_option(opts, "stop-on-fail")
          /\ ~get_bool_option(opts, "paths")
    THEN "stop_on_fail_verifiert<multi_path_symex_checkert>"
  ELSE IF ~get_bool_option(opts, "stop-on-fail")
          /\ get_bool_option(opts, "paths")
    THEN "all_properties_verifier_with_trace_storaget<single_path_symex_checkert>"
  ELSE IF ~get_bool_option(opts, "stop-on-fail")
          /\ ~get_bool_option(opts, "paths")
    THEN IF get_bool_option(opts, "localize-faults")
           THEN "all_properties_verifier_with_fault_localizationt<multi_path_symex_checkert>"
           ELSE "all_properties_verifier_with_trace_storaget<multi_path_symex_checkert>"
  ELSE "nullptr"

\* SelectVerifier with the single-path branch of all-properties taken only
\* without localize-faults
SelectVerifier_SinglePathGap(opts) ==
  IF get_bool_option(opts, "stop-on-fail") /\ get_bool_option(opts, "paths")
    THEN "stop_on_fail_verifiert<single_path_symex_checkert>"
  ELSE IF get_bool_option(opts, "stop-on-fail")
          /\ ~get_bool_option(opts, "paths")
    THEN IF get_bool_option(opts, "localize-faults")
           THEN "stop_on_fail_verifier_with_fault_localizationt<multi_path_symex_checkert>"
           ELSE "stop_on_fail_verifiert<multi_path_symex_checkert>"
  ELSE IF ~get_bool_option(opts, "stop-on-fail")
          /\ get_bool_option(opts, "paths")
          /\ ~get_bool_option(opts, "localize-faults")
    THEN "all_properties_verifier_with_trace_storaget<single_path_symex_checkert>"
  ELSE IF ~get_bool_option(opts, "stop-on-fail")
          /\ ~get_bool_option(opts, "paths")
    THEN IF get_bool_option(opts, "localize-faults")
           THEN "all_properties_verifier_with_fault_localizationt<multi_path_symex_checkert>"
           ELSE "all_properties_verifier_with_trace_storaget<multi_path_symex_checkert>"
  ELSE "nullptr"

\* the if/else-if cascade that fills std::unique_ptr<goto_verifiert> verifier
SelectVerifier(opts) ==
  IF get_bool_option(opts, "stop-on-fail") /\ get_bool_option(opts, "paths")
    THEN "stop_on_fail_verifiert<single_path_symex_checkert>"
  ELSE IF get_bool_option(opts, "stop-on-fail")
          /\ ~get_bool_option(opts, "paths")
    THEN IF get_bool_option(opts, "localize-faults")
           THEN "stop_on_fail_verifier_with_fault_localizationt<multi_path_symex_checkert>"
           ELSE "stop_on_fail_verifiert<multi_path_symex_checkert>"
  ELSE IF ~get_bool_option(opts, "stop-on-fail")
          /\ get_bool_option(opts, "paths")
    THEN "all_properties_verifier_with_trace_storaget<single_path_symex_checkert>"
  ELSE IF ~get_bool_option(opts, "stop-on-fail")
          /\ ~get_bool_option(opts, "paths")
    THEN IF get_bool_option(opts, "localize-faults")
           THEN "all_properties_verifier_with_fault_localizationt<multi_path_symex_checkert>"
           ELSE "all_properties_verifier_with_trace_storaget<multi_path_symex_checkert>"
  ELSE "nullptr"

\* result_to_exit_code
result_to_exit_code(result) ==
  CASE result = "PASS" -> "CPROVER_EXIT_VERIFICATION_SAFE"
    [] result = "FAIL" -> "CPROVER_EXIT_VERIFICATION_UNSAFE"
    [] result = "ERROR" -> "CPROVER_EXIT_INTERNAL_ERROR"
    [] result = "UNKNOWN" -> "CPROVER_EXIT_VERIFICATION_INCONCLUSIVE"

\* preprocessing(): the calls it makes; a null language object is used
\* before it is tested, so on an unknown file type the call may crash
preprocessing(args, file, null_language) ==
  IF args # "1"
    THEN [calls |-> << "error: Please provide one program to preprocess" >>,
          crashed |-> FALSE]
  ELSE IF file = "unopenable"
    THEN [calls |-> << "std::ifstream infile",
                      "error: failed to open input file" >>,
          crashed |-> FALSE]
  ELSE IF file \in {"unknown_language", "goto_binary"}
    THEN IF null_language = "crash"
           THEN [calls |-> << "std::ifstream infile",
                             "get_language_from_filename",
                             "nullptr->set_language_options" >>,
                 crashed |-> TRUE]
           ELSE [calls |-> << "std::ifstream infile",
                             "get_language_from_filename",
                             "nullptr->set_language_options",
                             "error: failed to figure out type of file" >>,
                 crashed |-> FALSE]
  ELSE IF file = "bad_source"
    THEN [calls |-> << "std::ifstream infile",
                      "get_language_from_filename",
                      "language->set_language_options",
                      "language->set_message_handler",
                      "language->preprocess",
                      "error: PREPROCESSING ERROR" >>,
          crashed |-> FALSE]
  ELSE [calls |-> << "std::ifstream infile",
                    "get_language_from_filename",
                    "language->set_language_options",
                    "language->set_message_handler",
                    "language->preprocess" >>,
        crashed |-> FALSE]

\* show_parse_tree without the call of is_goto_binary: a goto binary is
\* opened and handed to get_language_from_filename like any other file
show_parse_tree_NoBinaryTest(args, file) ==
  IF args # "1"
    THEN [calls |-> << "error: Please give exactly one source file" >>,
          ret |-> "CPROVER_EXIT_INCORRECT_TASK"]
  ELSE IF file = "unopenable"
    THEN [calls |-> << "std::ifstream infile",
                      "error: failed to open input file" >>,
          ret |-> "CPROVER_EXIT_INCORRECT_TASK"]
  ELSE IF file \in {"unknown_language", "goto_binary"}
    THEN [calls |-> << "std::ifstream infile",
                      "get_language_from_filename",
                      "error: failed to figure out type of file" >>,
          ret |-> "CPROVER_EXIT_INCORRECT_TASK"]
  ELSE IF file = "bad_source"
    THEN [calls |-> << "std::ifstream infile",
                      "get_language_from_filename",
                      "language->set_language_options",
                      "language->set_message_handler",
                      "language->parse", "error: PARSING ERROR" >>,
          ret |-> "CPROVER_EXIT_INCORRECT_TASK"]
  ELSE [calls |-> << "std::ifstream infile",
                    "get_language_from_filename",
                    "language->set_language_options",
                    "language->set_message_handler",
                    "language->parse", "language->show_parse" >>,
        ret |-> "CPROVER_EXIT_SUCCESS"]

\* the show-parse-tree block of doit: the calls it makes and what it returns
show_parse_tree(args, file) ==
  IF args # "1"
    THEN [calls |-> << "error: Please give exactly one source file" >>,
          ret |-> "CPROVER_EXIT_INCORRECT_TASK"]
  ELSE IF file = "goto_binary"
    THEN [calls |-> << "is_goto_binary",
                      "error: Please give exactly one source file" >>,
          ret |-> "CPROVER_EXIT_INCORRECT_TASK"]
  ELSE IF file = "unopenable"
    THEN [calls |-> << "is_goto_binary", "std::ifstream infile",
                      "error: failed to open input file" >>,
          ret |-> "CPROVER_EXIT_INCORRECT_TASK"]
  ELSE IF file = "unknown_language"
    THEN [calls |-> << "is_goto_binary", "std::ifstream infile",
                      "get_language_from_filename",
                      "error: failed to figure out type of file" >>,
          ret |-> "CPROVER_EXIT_INCORRECT_TASK"]
  ELSE IF file = "bad_source"
    THEN [calls |-> << "is_goto_binary", "std::ifstream infile",
                      "get_language_from_filename",
                      "language->set_language_options",
                      "language->set_message_handler",
                      "language->parse", "error: PARSING ERROR" >>,
          ret |-> "CPROVER_EXIT_INCORRECT_TASK"]
  ELSE [calls |-> << "is_goto_binary", "std::ifstream infile",
                    "get_language_from_filename",
                    "language->set_language_options",
                    "language->set_message_handler",
                    "language->parse", "language->show_parse" >>,
        ret |-> "CPROVER_EXIT_SUCCESS"]

\* cbmc_parse_optionst::set_properties: the calls it makes (it returns false)
set_properties(cl) ==
     When(IsSet(cl, "claim"), << "set_properties(claim)" >>)
  \o When(IsSet(cl, "property"), << "set_properties(property)" >>)

----------------------------------------------------------------------------
(* The session *)

Init ==
  /\ cmdline \in CommandLines
  /\ env = Nothing
  /\ pc = "doit"
  /\ options = NoOptions
  /\ mode = "none"
  /\ trace = << >>
  /\ verifier = "nullptr"
  /\ exit_code = "none"
  /\ run = 1
  /\ prev = [mode |-> "none", trace |-> << >>, exit_code |-> "none"]

InitArgv ==
  /\ cmdline \in ArgvCommandLines
  /\ env = Nothing
  /\ pc = "doit"
  /\ options = NoOptions
  /\ mode = "none"
  /\ trace = << >>
  /\ verifier = "nullptr"
  /\ exit_code = "none"
  /\ run = 1
  /\ prev = [mode |-> "none", trace |-> << >>, exit_code |-> "none"]

\* the options process_goto_program reads
PipelineOptions ==
  { "string-abstraction", "nondet-static", "drop-unused-functions", "cover",
    "reachability-slice-fb", "reachability-slice", "full-slice", "property" }

\* the default options with the options of S set
OptionsWith(S) ==
  [o \in DOMAIN set_default_options \cup S |->
     IF o \in S
       THEN IF o \in {"cover", "property"} THEN ArgValue ELSE "1"
       ELSE set_default_options[o]]

\* process_goto_program is about to be called on a goto model, with any
\* combination of the options it reads
InitPipeline ==
  /\ cmdline = << >>
  /\ env = Nothing
  /\ pc = "goto_model"
  /\ options \in {OptionsWith(S) : S \in SUBSET PipelineOptions}
  /\ mode = "none"
  /\ trace = << "initialize_goto_model" >>
  /\ verifier = "nullptr"
  /\ exit_code = "none"
  /\ run = 1
  /\ prev = [mode |-> "none", trace |-> << >>, exit_code |-> "none"]

\* the flags from which get_command_line_options derives stop-on-fail,
\* trace, the solver and the defaults
OptionFlags ==
  << "trace", "compact-trace", "stack-trace", "stop-on-fail", "xml-ui",
     "json-ui", "cover", "dimacs", "outfile", "graphml-witness", "smt2",
     "boolector", "cprover-smt2", "mathsat", "cvc4", "yices", "z3",
     "no-simplify", "no-propagation", "no-assertions", "no-assumptions",
     "no-simplify-if", "no-sat-preprocessor", "no-pretty-names",
     "arrays-uf-always", "arrays-uf-never" >>

\* the flags of `list` numbered by S, in the order of the list
RECURSIVE InOrderOf(_, _)
InOrderOf(list, S) ==
  IF S = {} THEN << >>
  ELSE << list[Min(S)] >> \o InOrderOf(list, S \ {Min(S)})

\* one command line per set of at most MaxFlags flags of OptionFlags
OptionCommandLines ==
  {InOrderOf(OptionFlags, S) : S \in SubsetsUpTo(DOMAIN OptionFlags, MaxFlags)}

\* doit is about to call get_command_line_options
InitOptions ==
  /\ cmdline \in OptionCommandLines
  /\ env = Nothing
  /\ pc = "doit"
  /\ options = NoOptions
  /\ mode = "none"
  /\ trace = << >>
  /\ verifier = "nullptr"
  /\ exit_code = "none"
  /\ run = 1
  /\ prev = [mode |-> "none", trace |-> << >>, exit_code |-> "none"]

\* doit: --version
ShowVersion ==
  /\ pc = "doit"
  /\ isset("version")
  /\ mode' = "ShowVersion"
  /\ trace' = Append(trace, "print CBMC_VERSION")
  /\ exit_code' = "CPROVER_EXIT_SUCCESS"
  /\ pc' = "done"
  /\ UNCHANGED <<cmdline, env, options, verifier, run, prev>>

\* doit: optionst options; get_command_line_options(options);
GetCommandLineOptions ==
  /\ pc = "doit"
  /\ ~isset("version")
  /\ \E c \in Answers.config_set :
       /\ Answer("config_set", c)
       /\ env' = [env EXCEPT !.config_set = c]
       /\ LET x == ValidationExit(cmdline, c)
          IN  IF x.exit # "none"
                THEN /\ trace' = Append(trace, x.log)
                     /\ exit_code' = x.exit
                     /\ pc' = "done"
                     /\ UNCHANGED options
                ELSE /\ options' = get_command_line_options(cmdline)
                     /\ pc' = "configured"
                     /\ UNCHANGED <<trace, exit_code>>
  /\ UNCHANGED <<cmdline, mode, verifier, run, prev>>

\* doit: --module, --gen-interface
HardwareModule ==
  /\ pc = "configured"
  /\ DoitBranch(cmdline) = "module"
  /\ mode' = "HardwareModule"
  /\ trace' = Append(trace, "error: no support for hardware modules")
  /\ exit_code' = "CPROVER_EXIT_USAGE_ERROR"
  /\ pc' = "done"
  /\ UNCHANGED <<cmdline, env, options, verifier, run, prev>>

\* doit: --test-preprocessor
TestPreprocessor ==
  /\ pc = "configured"
  /\ DoitBranch(cmdline) = "test-preprocessor"
  /\ \E r \in Answers.test_c_preprocessor :
       /\ Answer("test_c_preprocessor", r)
       /\ env' = [env EXCEPT !.test_c_preprocessor = r]
       /\ exit_code' = IF r = "failed"
                         THEN "CPROVER_EXIT_PREPROCESSOR_TEST_FAILED"
                         ELSE "CPROVER_EXIT_SUCCESS"
  /\ mode' = "TestPreprocessor"
  /\ trace' = Append(trace, "test_c_preprocessor")
  /\ pc' = "done"
  /\ UNCHANGED <<cmdline, options, verifier, run, prev>>

\* doit: --preprocess
Preprocess ==
  /\ pc = "configured"
  /\ DoitBranch(cmdline) = "preprocess"
  /\ \E a \in Answers.args, f \in Answers.file \cup {"unread"},
        n \in Answers.null_language \cup {"unread"} :
       /\ Answer("args", a)
       /\ IF a = "1" THEN Answer("file", f) ELSE f = env.file
       /\ IF a = "1" /\ f \in {"unknown_language", "goto_binary"}
            THEN Answer("null_language", n)
            ELSE n = env.null_language
       /\ env' = [env EXCEPT !.args = a, !.file = f, !.null_language = n]
       /\ LET r == preprocessing(a, f, n)
          IN  /\ trace' = trace \o r.calls
              /\ exit_code' = IF r.crashed THEN "crashed"
                              ELSE "CPROVER_EXIT_SUCCESS"
  /\ mode' = "Preprocess"
  /\ pc' = "done"
  /\ UNCHANGED <<cmdline, options, verifier, run, prev>>

\* doit: --show-parse-tree
ShowParseTree ==
  /\ pc = "configured"
  /\ DoitBranch(cmdline) = "show-parse-tree"
  /\ \E a \in Answers.args, f \in Answers.file \cup {"unread"} :
       /\ Answer("args", a)
       /\ IF a = "1" THEN Answer("file", f) ELSE f = env.file
       /\ env' = [env EXCEPT !.args = a, !.file = f]
       /\ LET r == show_parse_tree(a, f)
          IN  /\ trace' = trace \o r.calls
              /\ exit_code' = r.ret
  /\ mode' = "ShowParseTree"
  /\ pc' = "done"
  /\ UNCHANGED <<cmdline, options, verifier, run, prev>>

\* InitializeGotoModel without the test of cmdline.args.empty()
InitializeGotoModel_NoArgsTest ==
  /\ pc = "configured"
  /\ DoitBranch(cmdline) = "get_goto_program"
  /\ \E a \in Answers.args :
       /\ Answer("args", a)
       /\ env' = [env EXCEPT !.args = a]
  /\ trace' = Append(trace, "initialize_goto_model")
  /\ pc' = "goto_model"
  /\ UNCHANGED <<cmdline, options, mode, verifier, exit_code, run, prev>>

\* get_goto_program: the check of cmdline.args and initialize_goto_model
InitializeGotoModel ==
  /\ pc = "configured"
  /\ DoitBranch(cmdline) = "get_goto_program"
  /\ \E a \in Answers.args :
       /\ Answer("args", a)
       /\ env' = [env EXCEPT !.args = a]
       /\ IF a = "0"
            THEN /\ trace' = Append(trace,
                                    "error: Please provide a program to verify")
                 /\ exit_code' = "CPROVER_EXIT_INCORRECT_TASK"
                 /\ pc' = "done"
            ELSE /\ trace' = Append(trace, "initialize_goto_model")
                 /\ pc' = "goto_model"
                 /\ UNCHANGED exit_code
  /\ UNCHANGED <<cmdline, options, mode, verifier, run, prev>>

\* get_goto_program: --show-symbol-table
ShowSymbolTable ==
  /\ pc = "goto_model"
  /\ isset("show-symbol-table")
  /\ mode' = "ShowSymbolTable"
  /\ trace' = Append(trace, "show_symbol_table")
  /\ exit_code' = "CPROVER_EXIT_SUCCESS"
  /\ pc' = "done"
  /\ UNCHANGED <<cmdline, env, options, verifier, run, prev>>

\* ProcessGotoProgram returning the status of a task that cannot be carried
\* out when process_goto_program fails
ProcessGotoProgram_IncorrectTask ==
  /\ pc = "goto_model"
  /\ ~isset("show-symbol-table")
  /\ \E c \in Answers.instrument_cover_goals \cup {"unread"} :
       /\ IF is_set(options, "cover")
            THEN Answer("instrument_cover_goals", c)
            ELSE c = env.instrument_cover_goals
       /\ env' = [env EXCEPT !.instrument_cover_goals = c]
       /\ LET r == process_goto_program(options, c)
          IN  IF r.ret
                THEN /\ trace' = trace \o r.calls
                     /\ exit_code' = "CPROVER_EXIT_INCORRECT_TASK"
                     /\ pc' = "done"
                ELSE /\ trace' = trace \o r.calls
                                 \o When(isset("validate-goto-model"),
                                         << "goto_model.validate" >>)
                     /\ pc' = "processed"
                     /\ UNCHANGED exit_code
  /\ UNCHANGED <<cmdline, options, mode, verifier, run, prev>>

\* ProcessGotoProgram with the libraries linked only the first time the
\* pipeline runs, as with a static flag that remembers the linking
ProcessGotoProgram_LinksOnce ==
  /\ pc = "goto_model"
  /\ ~isset("show-symbol-table")
  /\ \E c \in Answers.instrument_cover_goals \cup {"unread"} :
       /\ IF is_set(options, "cover")
            THEN Answer("instrument_cover_goals", c)
            ELSE c = env.instrument_cover_goals
       /\ env' = [env EXCEPT !.instrument_cover_goals = c]
       /\ LET r == process_goto_program(options, c)
              linked(call) ==
                call \in {"link_to_library(cprover_cpp_library_factory)",
                          "link_to_library(cprover_c_library_factory)"}
              calls == SelectSeq(r.calls, LAMBDA x : run = 1 \/ ~linked(x))
          IN  IF r.ret
                THEN /\ trace' = trace \o calls
                     /\ exit_code' = "CPROVER_EXIT_INTERNAL_ERROR"
                     /\ pc' = "done"
                ELSE /\ trace' = trace \o calls
                                 \o When(isset("validate-goto-model"),
                                         << "goto_model.validate" >>)
                     /\ pc' = "processed"
                     /\ UNCHANGED exit_code
  /\ UNCHANGED <<cmdline, options, mode, verifier, run, prev>>

\* get_goto_program: process_goto_program, then --validate-goto-model
ProcessGotoProgram ==
  /\ pc = "goto_model"
  /\ ~isset("show-symbol-table")
  /\ \E c \in Answers.instrument_cover_goals \cup {"unread"} :
       /\ IF is_set(options, "cover")
            THEN Answer("instrument_cover_goals", c)
            ELSE c = env.instrument_cover_goals
       /\ env' = [env EXCEPT !.instrument_cover_goals = c]
       /\ LET r == process_goto_program(options, c)
          IN  IF r.ret
                THEN /\ trace' = trace \o r.calls
                     /\ exit_code' = "CPROVER_EXIT_INTERNAL_ERROR"
                     /\ pc' = "done"
                ELSE /\ trace' = trace \o r.calls
                                 \o When(isset("validate-goto-model"),
                                         << "goto_model.validate" >>)
                     /\ pc' = "processed"
                     /\ UNCHANGED exit_code
  /\ UNCHANGED <<cmdline, options, mode, verifier, run, prev>>

\* ShowLoops with the test of show-loops placed before the call of
\* process_goto_program
ShowLoops_BeforePipeline ==
  /\ pc = "goto_model"
  /\ isset("show-loops")
  /\ mode' = "ShowLoops"
  /\ trace' = Append(trace, "show_loop_ids")
  /\ exit_code' = "CPROVER_EXIT_SUCCESS"
  /\ pc' = "done"
  /\ UNCHANGED <<cmdline, env, options, verifier, run, prev>>

\* get_goto_program: --show-loops
ShowLoops ==
  /\ pc = "processed"
  /\ ProcessedBranch(cmdline) = "show-loops"
  /\ mode' = "ShowLoops"
  /\ trace' = Append(trace, "show_loop_ids")
  /\ exit_code' = "CPROVER_EXIT_SUCCESS"
  /\ pc' = "done"
  /\ UNCHANGED <<cmdline, env, options, verifier, run, prev>>

\* ShowGotoFunctions without its return statement: get_goto_program returns
\* -1 and doit goes on
ShowGotoFunctions_FallsThrough ==
  /\ pc = "processed"
  /\ ProcessedBranch(cmdline) = "show-goto-functions"
  /\ mode' = "ShowGotoFunctions"
  /\ trace' = Append(trace, "show_goto_functions") \o set_properties(cmdline)
  /\ pc' = "properties_set"
  /\ UNCHANGED <<cmdline, env, options, verifier, exit_code, run, prev>>

\* get_goto_program: --show-goto-functions, --list-goto-functions
ShowGotoFunctions ==
  /\ pc = "processed"
  /\ ProcessedBranch(cmdline) = "show-goto-functions"
  /\ mode' = "ShowGotoFunctions"
  /\ trace' = Append(trace, "show_goto_functions")
  /\ exit_code' = "CPROVER_EXIT_SUCCESS"
  /\ pc' = "done"
  /\ UNCHANGED <<cmdline, env, options, verifier, run, prev>>

\* ShowProperties without its return statement: doit goes on to
\* set_properties and to the verifiers
ShowProperties_FallsThrough ==
  /\ pc = "processed"
  /\ ProcessedBranch(cmdline) = "show-properties"
  /\ mode' = "ShowProperties"
  /\ trace' = Append(trace, "show_properties") \o set_properties(cmdline)
  /\ pc' = "properties_set"
  /\ UNCHANGED <<cmdline, env, options, verifier, exit_code, run, prev>>

\* doit: --show-claims, --show-properties
ShowProperties ==
  /\ pc = "processed"
  /\ ProcessedBranch(cmdline) = "show-properties"
  /\ mode' = "ShowProperties"
  /\ trace' = Append(trace, "show_properties")
  /\ exit_code' = "CPROVER_EXIT_SUCCESS"
  /\ pc' = "done"
  /\ UNCHANGED <<cmdline, env, options, verifier, run, prev>>

\* SetProperties storing the names given with --claim in the option
\* `property`
SetProperties_StoresClaim ==
  /\ pc = "processed"
  /\ ProcessedBranch(cmdline) = "set_properties"
  /\ trace' = trace \o set_properties(cmdline)
  /\ options' = IF isset("claim")
                  THEN set_option(options, "property", ArgValue)
                  ELSE options
  /\ pc' = "properties_set"
  /\ UNCHANGED <<cmdline, env, mode, verifier, exit_code, run, prev>>

\* doit: if(set_properties()) return CPROVER_EXIT_SET_PROPERTIES_FAILED;
SetProperties ==
  /\ pc = "processed"
  /\ ProcessedBranch(cmdline) = "set_properties"
  /\ trace' = trace \o set_properties(cmdline)
  /\ pc' = "properties_set"
  /\ UNCHANGED <<cmdline, env, options, mode, verifier, exit_code, run, prev>>

\* doit: program-only, show-vcc
ProgramOnly ==
  /\ pc = "properties_set"
  /\ VerifyBranch(options) = "program-only"
  /\ \E r \in Answers.verifier :
       /\ Answer("verifier", r)
       /\ env' = [env EXCEPT !.verifier = r]
  /\ mode' = "ProgramOnly"
  /\ trace' = trace \o << ProgramOnlyVerifier(options), "verifier()" >>
  /\ exit_code' = "CPROVER_EXIT_SUCCESS"
  /\ pc' = "done"
  /\ UNCHANGED <<cmdline, options, verifier, run, prev>>

\* FormulaExport returning the status of the verifier's result instead of
\* discarding the result
FormulaExport_ReturnsResult ==
  /\ pc = "properties_set"
  /\ VerifyBranch(options) = "outfile"
  /\ \E r \in Answers.verifier :
       /\ Answer("verifier", r)
       /\ env' = [env EXCEPT !.verifier = r]
       /\ exit_code' = result_to_exit_code(r)
  /\ mode' = "FormulaExport"
  /\ trace' = trace \o << OutfileVerifier(options), "verifier()" >>
  /\ pc' = "done"
  /\ UNCHANGED <<cmdline, options, verifier, run, prev>>

\* doit: dimacs, outfile
FormulaExport ==
  /\ pc = "properties_set"
  /\ VerifyBranch(options) = "outfile"
  /\ \E r \in Answers.verifier :
       /\ Answer("verifier", r)
       /\ env' = [env EXCEPT !.verifier = r]
  /\ mode' = "FormulaExport"
  /\ trace' = trace \o << OutfileVerifier(options), "verifier()" >>
  /\ exit_code' = "CPROVER_EXIT_SUCCESS"
  /\ pc' = "done"
  /\ UNCHANGED <<cmdline, options, verifier, run, prev>>

\* Coverage with the test-input generator invoked before the verifier is run
Coverage_GeneratorFirst ==
  /\ pc = "properties_set"
  /\ VerifyBranch(options) = "cover"
  /\ \E r \in Answers.verifier :
       /\ Answer("verifier", r)
       /\ env' = [env EXCEPT !.verifier = r]
  /\ mode' = "Coverage"
  /\ trace' = trace \o << CoverVerifier, "c_test_input_generatort",
                          "test_generator(verifier.get_traces())",
                          "verifier()", "verifier.report()" >>
  /\ exit_code' = "CPROVER_EXIT_SUCCESS"
  /\ pc' = "done"
  /\ UNCHANGED <<cmdline, options, verifier, run, prev>>

\* doit: cover
Coverage ==
  /\ pc = "properties_set"
  /\ VerifyBranch(options) = "cover"
  /\ \E r \in Answers.verifier :
       /\ Answer("verifier", r)
       /\ env' = [env EXCEPT !.verifier = r]
  /\ mode' = "Coverage"
  /\ trace' = trace \o << CoverVerifier, "verifier()", "verifier.report()",
                          "c_test_input_generatort",
                          "test_generator(verifier.get_traces())" >>
  /\ exit_code' = "CPROVER_EXIT_SUCCESS"
  /\ pc' = "done"
  /\ UNCHANGED <<cmdline, options, verifier, run, prev>>

\* doit: the cascade that creates the verifier; UNREACHABLE aborts
SelectStrategy ==
  /\ pc = "properties_set"
  /\ VerifyBranch(options) = "verify"
  /\ mode' = "StandardVerify"
  /\ verifier' = SelectVerifier(options)
  /\ IF SelectVerifier(options) = "nullptr"
       THEN /\ trace' = Append(trace, "UNREACHABLE")
            /\ exit_code' = "aborted"
            /\ pc' = "done"
       ELSE /\ trace' = Append(trace, SelectVerifier(options))
            /\ pc' = "selected"
            /\ UNCHANGED exit_code
  /\ UNCHANGED <<cmdline, env, options, run, prev>>

\* RunStrategy with the report requested before the verifier is run
RunStrategy_ReportFirst ==
  /\ pc = "selected"
  /\ \E r \in Answers.verifier :
       /\ Answer("verifier", r)
       /\ env' = [env EXCEPT !.verifier = r]
       /\ exit_code' = result_to_exit_code(r)
  /\ trace' = trace \o << "verifier->report()", "(*verifier)()" >>
  /\ pc' = "done"
  /\ UNCHANGED <<cmdline, options, mode, verifier, run, prev>>

\* doit: result = (*verifier)(); verifier->report(); result_to_exit_code
RunStrategy ==
  /\ pc = "selected"
  /\ \E r \in Answers.verifier :
       /\ Answer("verifier", r)
       /\ env' = [env EXCEPT !.verifier = r]
       /\ exit_code' = result_to_exit_code(r)
  /\ trace' = trace \o << "(*verifier)()", "verifier->report()" >>
  /\ pc' = "done"
  /\ UNCHANGED <<cmdline, options, mode, verifier, run, prev>>

\* the same command line, on the same inputs, is run a second time
Restart ==
  /\ pc = "done"
  /\ run = 1
  /\ run' = 2
  /\ prev' = [mode |-> mode, trace |-> trace, exit_code |-> exit_code]
  /\ pc' = "doit"
  /\ options' = NoOptions
  /\ mode' = "none"
  /\ trace' = << >>
  /\ verifier' = "nullptr"
  /\ exit_code' = "none"
  /\ UNCHANGED <<cmdline, env>>

Next ==
  \/ ShowVersion
  \/ GetCommandLineOptions
  \/ HardwareModule
  \/ TestPreprocessor
  \/ Preprocess
  \/ ShowParseTree
  \/ InitializeGotoModel
  \/ ShowSymbolTable
  \/ ProcessGotoProgram
  \/ ShowLoops
  \/ ShowGotoFunctions
  \/ ShowProperties
  \/ SetProperties
  \/ ProgramOnly
  \/ FormulaExport
  \/ Coverage
  \/ SelectStrategy
  \/ RunStrategy

Spec == Init /\ [][Next]_vars

\* every order of the flags on the command line
SpecArgv == InitArgv /\ [][Next]_vars

\* process_goto_program alone, on every combination of its options
SpecPipeline == InitPipeline /\ [][ProcessGotoProgram]_vars

\* get_command_line_options alone, on the flags of OptionFlags
SpecOptions == InitOptions /\ [][GetCommandLineOptions]_vars

NextTwice == Next \/ Restart

\* each session is followed by a second one with the same command line
SpecTwice == Init /\ [][NextTwice]_vars

TypeOK ==
  /\ pc \in {"doit", "configured", "goto_model", "processed",
             "properties_set", "selected", "done"}
  /\ run \in {1, 2}
  /\ (pc = "done") = (exit_code # "none")

----------------------------------------------------------------------------
(* Reading the log *)

\* the call was made
Called(call) == \E i \in DOMAIN trace : trace[i] = call

\* the positions of the log at which a call of S was made
CallsOf(S) == {i \in DOMAIN trace : trace[i] \in S}

\* every call of A was made before every call of B
AllBefore(A, B) == \A i \in CallsOf(A), j \in CallsOf(B) : i < j

\* the types of verifier object doit can create
VerifierTypes ==
  { "all_properties_verifiert<single_path_symex_only_checkert>",
    "all_properties_verifiert<multi_path_symex_only_checkert>",
    "stop_on_fail_verifiert<single_path_symex_checkert>",
    "stop_on_fail_verifiert<multi_path_symex_checkert>",
    "stop_on_fail_verifier_with_fault_localizationt<multi_path_symex_checkert>",
    "all_properties_verifier_with_trace_storaget<single_path_symex_checkert>",
    "all_properties_verifier_with_trace_storaget<multi_path_symex_checkert>",
    "all_properties_verifier_with_fault_localizationt<multi_path_symex_checkert>",
    "cover_goals_verifier_with_trace_storaget<multi_path_symex_checkert>" }

\* the calls that run a verifier object
VerifierRuns == {"verifier()", "(*verifier)()"}

\* the calls of process_goto_program
StageCalls ==
  { "remove_asm", "link_to_library(cprover_cpp_library_factory)",
    "link_to_library(cprover_c_library_factory)", "string_instrumentation",
    "remove_function_pointers", "mm_io", "instrument_preconditions",
    "remove_returns", "remove_vector", "remove_complex", "rewrite_union",
    "goto_check", "adjust_float_expressions", "nondet_static",
    "string_abstraction", "add_failed_symbols", "goto_functions.update",
    "goto_functions.compute_loop_numbers", "remove_unused_functions",
    "remove_skip", "get_cover_config", "instrument_cover_goals",
    "label_properties", "reachability_slicer(property, fb)",
    "reachability_slicer(fb)", "reachability_slicer(property)",
    "reachability_slicer", "property_slicer", "full_slicer" }

\* no representation was built, no stage and no verifier has run
NoRepresentationWork ==
  /\ ~Called("initialize_goto_model")
  /\ CallsOf(StageCalls) = {}
  /\ CallsOf(VerifierTypes \cup VerifierRuns) = {}
  /\ verifier = "nullptr"

\* get_command_line_options has been called and has returned or exited
Validated == pc # "doit" /\ ~isset("version")

----------------------------------------------------------------------------
(* C1 *)

ExclusivePairs ==
  { <<"cover", "unwinding-assertions">>,
    <<"max-field-sensitivity-array-size", "no-array-field-sensitivity">>,
    <<"partial-loops", "unwinding-assertions">>,
    <<"reachability-slice", "reachability-slice-fb">> }

\* C1: whenever both flags of one of the four pairs are on the command line,
\* in either order, get_command_line_options ends the process with the
\* usage-error status and leaves no options behind
C1_ExclusivePairsRejected ==
  \A p \in ExclusivePairs :
    (Validated /\ isset(p[1]) /\ isset(p[2]))
      => /\ pc = "done"
         /\ exit_code = "CPROVER_EXIT_USAGE_ERROR"
         /\ options = NoOptions
         /\ env.config_set = "ok" => trace = << MutuallyExclusive(cmdline) >>
         /\ MutuallyExclusive(cmdline) # ""

\* a pair given in the order opposite to the one the check names is rejected
C1_Witness ==
  /\ cmdline = << "unwinding-assertions", "cover" >>
  /\ pc = "done"
  /\ exit_code = "CPROVER_EXIT_USAGE_ERROR"
  /\ trace = << "--cover and --unwinding-assertions must not be given together" >>

----------------------------------------------------------------------------
(* C2 *)

ScenarioB == isset("cover") /\ isset("unwinding-assertions")

ScenarioC == isset("reachability-slice") /\ isset("reachability-slice-fb")

\* C2 as stated: every finished session of scenario B or C has ended with
\* the usage-error status and without any work on a representation
C2_AsStated ==
  (pc = "done" /\ (ScenarioB \/ ScenarioC))
    => exit_code = "CPROVER_EXIT_USAGE_ERROR" /\ NoRepresentationWork

\* C2, amended: a session of scenario B or C never builds a representation
\* and never runs a stage or a verifier, and unless `version` is given it
\* ends with the usage-error status
C2_ConflictBeforeRepresentation ==
  (ScenarioB \/ ScenarioC)
    => /\ NoRepresentationWork
       /\ pc \in {"doit", "done"}
       /\ (pc = "done" /\ ~isset("version"))
            => exit_code = "CPROVER_EXIT_USAGE_ERROR"

\* a session of scenario C has been rejected
C2_Witness ==
  /\ ScenarioC
  /\ ~isset("version")
  /\ pc = "done"
  /\ exit_code = "CPROVER_EXIT_USAGE_ERROR"
  /\ Called("--reachability-slice and --reachability-slice-fb must not be given together")

----------------------------------------------------------------------------
(* C3 *)

SessionModes ==
  { "ShowVersion", "Preprocess", "ShowParseTree", "ShowSymbolTable",
    "ShowLoops", "ShowGotoFunctions", "ShowProperties", "ProgramOnly",
    "FormulaExport", "Coverage", "StandardVerify" }

\* the call that produces the artifact of a mode, or creates its strategy
ArtifactsOf(m) ==
  CASE m = "ShowVersion" -> {"print CBMC_VERSION"}
    [] m = "Preprocess" -> {"language->preprocess"}
    [] m = "ShowParseTree" -> {"language->show_parse"}
    [] m = "ShowSymbolTable" -> {"show_symbol_table"}
    [] m = "ShowLoops" -> {"show_loop_ids"}
    [] m = "ShowGotoFunctions" -> {"show_goto_functions"}
    [] m = "ShowProperties" -> {"show_properties"}
    [] m = "ProgramOnly" ->
         { "all_properties_verifiert<single_path_symex_only_checkert>",
           "all_properties_verifiert<multi_path_symex_only_checkert>" }
    [] m = "FormulaExport" ->
         { "stop_on_fail_verifiert<single_path_symex_checkert>",
           "stop_on_fail_verifiert<multi_path_symex_checkert>" }
    [] m = "Coverage" ->
         { "cover_goals_verifier_with_trace_storaget<multi_path_symex_checkert>" }
    [] m = "StandardVerify" ->
         { "stop_on_fail_verifiert<single_path_symex_checkert>",
           "stop_on_fail_verifiert<multi_path_symex_checkert>",
           "stop_on_fail_verifier_with_fault_localizationt<multi_path_symex_checkert>",
           "all_properties_verifier_with_trace_storaget<single_path_symex_checkert>",
           "all_properties_verifier_with_trace_storaget<multi_path_symex_checkert>",
           "all_properties_verifier_with_fault_localizationt<multi_path_symex_checkert>" }
    [] m = "HardwareModule" -> {"error: no support for hardware modules"}
    [] m = "TestPreprocessor" -> {"test_c_preprocessor"}
    [] OTHER -> {}

Artifacts == UNION {ArtifactsOf(m) : m \in SessionModes}

\* the session ended in get_goto_program before any mode was entered:
\* no input file, or a failure of process_goto_program
EndedBeforeMode ==
  /\ mode = "none"
  /\ exit_code \in {"CPROVER_EXIT_INCORRECT_TASK", "CPROVER_EXIT_INTERNAL_ERROR"}

\* C3 as stated, for the sessions that end with Success: every such session
\* with a validated configuration has taken one of the eleven modes
C3_AsStated ==
  (pc = "done" /\ options # NoOptions /\ exit_code = "CPROVER_EXIT_SUCCESS")
    => mode \in SessionModes

\* C3, amended: a finished session with a validated configuration that sets
\* none of module, gen-interface, test-preprocessor has taken one of the
\* eleven modes unless it ended in get_goto_program on a missing input or a
\* pipeline failure; no session produces two artifacts or strategies, or one
\* of another mode than its own; a second session with the same command line
\* and the same inputs takes the same mode
C3_OneModePerSession ==
  /\ (/\ pc = "done"
      /\ options # NoOptions
      /\ DoitBranch(cmdline) \notin {"module", "test-preprocessor"})
       => (mode \in SessionModes \/ EndedBeforeMode)
  /\ Cardinality(CallsOf(Artifacts)) <= 1
  /\ \A i \in CallsOf(Artifacts) :
       mode \in SessionModes /\ trace[i] \in ArtifactsOf(mode)
  /\ (run = 2 /\ pc = "done") => mode = prev.mode

\* the second session of a command line that asks for two dumps has ended
C3_Witness ==
  /\ run = 2
  /\ pc = "done"
  /\ isset("show-loops")
  /\ isset("show-properties")
  /\ mode = "ShowLoops"
  /\ prev.mode = "ShowLoops"
  /\ Called("show_loop_ids")

----------------------------------------------------------------------------
(* C4 *)

\* the documented priority order: each branch with the flags that select it
Priority ==
  << <<"ShowVersion", {"version"}>>,
     <<"HardwareModule", {"module", "gen-interface"}>>,
     <<"TestPreprocessor", {"test-preprocessor"}>>,
     <<"Preprocess", {"preprocess"}>>,
     <<"ShowParseTree", {"show-parse-tree"}>>,
     <<"ShowSymbolTable", {"show-symbol-table"}>>,
     <<"ShowLoops", {"show-loops"}>>,
     <<"ShowGotoFunctions", {"show-goto-functions", "list-goto-functions"}>>,
     <<"ShowProperties", {"show-properties", "show-claims"}>>,
     <<"ProgramOnly", {"program-only", "show-vcc"}>>,
     <<"FormulaExport", {"dimacs", "outfile"}>>,
     <<"Coverage", {"cover"}>> >>

Matches(i) == \E f \in Priority[i][2] : isset(f)

FirstMatch ==
  IF \E i \in DOMAIN Priority : Matches(i)
    THEN Priority[Min({i \in DOMAIN Priority : Matches(i)})][1]
    ELSE "StandardVerify"

\* C4: the branch a session takes is the first one of the documented order
\* whose condition holds, and whatever artifact or strategy the session
\* produces is one of that branch; so of two branches whose conditions both
\* hold the later one is never taken
C4_FirstMatchWins ==
  /\ mode # "none" => mode = FirstMatch
  /\ \A i \in CallsOf(Artifacts) : trace[i] \in ArtifactsOf(FirstMatch)
  /\ \A i, j \in DOMAIN Priority :
       (i < j /\ Matches(i) /\ Matches(j)) => mode # Priority[j][1]

\* outfile with cover has done formula export
C4_Witness ==
  /\ isset("outfile")
  /\ isset("cover")
  /\ pc = "done"
  /\ mode = "FormulaExport"
  /\ Called("stop_on_fail_verifiert<multi_path_symex_checkert>")
  /\ ~Called(CoverVerifier)

----------------------------------------------------------------------------
(* C5 *)

InspectionModes ==
  { "ShowVersion", "Preprocess", "ShowParseTree", "ShowSymbolTable",
    "ShowLoops", "ShowGotoFunctions", "ShowProperties" }

\* C5 as stated: in the nine modes other than StandardVerify and Coverage no
\* verifier object is created or run
C5_AsStated ==
  mode \in SessionModes \ {"StandardVerify", "Coverage"}
    => CallsOf(VerifierTypes \cup VerifierRuns) = {}

\* C5, amended: in the seven dump modes the session has ended, nothing but
\* an error message follows the artifact, and no verifier object is created
\* or run; in ProgramOnly and FormulaExport the session creates one verifier
\* object of the mode, runs it once, asks for no report and ends at once with
\* Success
C5_InspectionEndsSession ==
  /\ mode \in InspectionModes
       => /\ pc = "done"
          /\ CallsOf(VerifierTypes \cup VerifierRuns) = {}
          /\ verifier = "nullptr"
          /\ \A i \in CallsOf(ArtifactsOf(mode)) :
               \A j \in (i + 1)..Len(trace) :
                 trace[j] = "error: PREPROCESSING ERROR"
  /\ mode \in {"ProgramOnly", "FormulaExport"}
       => /\ pc = "done"
          /\ exit_code = "CPROVER_EXIT_SUCCESS"
          /\ Len(trace) >= 2
          /\ trace[Len(trace) - 1] \in ArtifactsOf(mode)
          /\ trace[Len(trace)] = "verifier()"
          /\ Cardinality(CallsOf(VerifierTypes)) = 1
          /\ Cardinality(CallsOf(VerifierRuns)) = 1
          /\ ~Called("verifier.report()")
          /\ verifier = "nullptr"

\* a program-only session has run its symex-only verifier and ended
C5_Witness ==
  /\ mode = "ProgramOnly"
  /\ pc = "done"
  /\ Called("all_properties_verifiert<multi_path_symex_only_checkert>")
  /\ Called("verifier()")
  /\ exit_code = "CPROVER_EXIT_SUCCESS"

----------------------------------------------------------------------------
(* C6 *)

\* the calls of process_goto_program made so far, in order
StagesRun == SelectSeq(trace, LAMBDA c : c \in StageCalls)

\* the steps of the documented order 1..20 that a call can be
StepsOf(call) ==
  CASE call = "remove_asm" -> {1}
    [] call \in {"link_to_library(cprover_cpp_library_factory)",
                 "link_to_library(cprover_c_library_factory)"} -> {2}
    [] call = "string_instrumentation" -> {3}
    [] call = "remove_function_pointers" -> {4}
    [] call = "mm_io" -> {5}
    [] call = "instrument_preconditions" -> {6}
    [] call \in {"remove_returns", "remove_vector", "remove_complex",
                 "rewrite_union"} -> {7}
    [] call = "goto_check" -> {8}
    [] call = "adjust_float_expressions" -> {9}
    [] call = "nondet_static" -> {10}
    [] call = "string_abstraction" -> {11}
    [] call = "add_failed_symbols" -> {12}
    [] call \in {"goto_functions.update",
                 "goto_functions.compute_loop_numbers"} -> {13}
    [] call = "remove_unused_functions" -> {14}
    [] call = "remove_skip" -> {15, 20}
    [] call \in {"get_cover_config", "instrument_cover_goals"} -> {16}
    [] call = "label_properties" -> {17}
    [] call \in {"reachability_slicer(property, fb)", "reachability_slicer(fb)",
                 "reachability_slicer(property)", "reachability_slicer"} -> {18}
    [] call \in {"property_slicer", "full_slicer"} -> {19}
    [] OTHER -> {}

\* the calls of seq from position i on can be given steps that never
\* decrease, starting from step `from`
RECURSIVE InDocumentedOrder(_, _, _)
InDocumentedOrder(seq, i, from) ==
  IF i > Len(seq) THEN TRUE
  ELSE LET later == {s \in StepsOf(seq[i]) : s >= from}
       IN  later # {} /\ InDocumentedOrder(seq, i + 1, Min(later))

\* C6: the stages executed by process_goto_program are a subsequence of the
\* documented order; in particular library linking precedes function-pointer
\* removal and precondition instrumentation, function-pointer removal
\* precedes failed-symbol resolution and unused-function removal, and string
\* instrumentation precedes string abstraction
C6_StagesInDocumentedOrder ==
  /\ InDocumentedOrder(StagesRun, 1, 1)
  /\ AllBefore({"link_to_library(cprover_cpp_library_factory)",
                "link_to_library(cprover_c_library_factory)"},
               {"remove_function_pointers", "instrument_preconditions"})
  /\ AllBefore({"remove_function_pointers"},
               {"add_failed_symbols", "remove_unused_functions"})
  /\ AllBefore({"string_instrumentation"}, {"string_abstraction"})

\* a pipeline with string abstraction, unused-function removal and a full
\* slice has run to its end
C6_Witness ==
  /\ pc = "processed"
  /\ Called("string_instrumentation")
  /\ Called("string_abstraction")
  /\ Called("remove_unused_functions")
  /\ Called("full_slicer")
  /\ trace[Len(trace)] = "remove_skip"

----------------------------------------------------------------------------
(* C7 *)

\* the stages that can introduce a property
Introducers == {"goto_check", "nondet_static", "instrument_cover_goals"}

\* the slicing stages
Slicers ==
  { "reachability_slicer(property, fb)", "reachability_slicer(fb)",
    "reachability_slicer(property)", "reachability_slicer",
    "property_slicer", "full_slicer" }

\* C7: label_properties is called at most once, and once in every pipeline
\* run that returns success; every stage that can introduce a property runs
\* before it and every slicing stage runs after it
C7_LabelOnceBeforeSlicing ==
  /\ Cardinality(CallsOf({"label_properties"})) <= 1
  /\ pc \in {"processed", "properties_set", "selected"}
       => Called("label_properties")
  /\ AllBefore(Introducers, {"label_properties"})
  /\ AllBefore({"label_properties"}, Slicers)
  /\ CallsOf(Slicers) # {} => Called("label_properties")

\* a pipeline with coverage instrumentation, nondet-static and a full slice
\* has labelled the properties
C7_Witness ==
  /\ Called("instrument_cover_goals")
  /\ Called("nondet_static")
  /\ Called("label_properties")
  /\ Called("full_slicer")

----------------------------------------------------------------------------
(* C8 *)

\* C8: when instrument_cover_goals fails, `cover` is set and the session has
\* ended there with the internal-error status: no labeling, no slicing, no
\* second remove_skip, no artifact and no verifier; a session that ends in
\* the pipeline has ended this way; and without `cover` the pipeline never
\* calls instrument_cover_goals and runs to its last stage
C8_OnlyCoverFails ==
  /\ env.instrument_cover_goals = "error"
       => /\ is_set(options, "cover")
          /\ pc = "done"
          /\ exit_code = "CPROVER_EXIT_INTERNAL_ERROR"
          /\ mode = "none"
          /\ trace[Len(trace)] = "instrument_cover_goals"
          /\ ~Called("label_properties")
          /\ CallsOf(Slicers) = {}
          /\ Cardinality(CallsOf({"remove_skip"})) = 1
          /\ CallsOf(Artifacts \cup VerifierTypes \cup VerifierRuns) = {}
  /\ (pc = "done" /\ mode = "none" /\ Called("remove_asm"))
       => env.instrument_cover_goals = "error"
  /\ (Called("remove_asm") /\ ~is_set(options, "cover"))
       => /\ ~Called("instrument_cover_goals")
          /\ Called("label_properties")
          /\ Cardinality(CallsOf({"remove_skip"})) = 2
          /\ exit_code # "CPROVER_EXIT_INTERNAL_ERROR"
               \/ mode = "StandardVerify"

\* coverage instrumentation has failed and ended the session
C8_Witness ==
  /\ env.instrument_cover_goals = "error"
  /\ pc = "done"
  /\ exit_code = "CPROVER_EXIT_INTERNAL_ERROR"
  /\ trace[Len(trace)] = "instrument_cover_goals"

----------------------------------------------------------------------------
(* C9 *)

\* the six rows of the strategy table
StrategyTable(stop_on_fail, path_exploration, fault_localization) ==
  CASE stop_on_fail /\ path_exploration = "single" ->
         "stop_on_fail_verifiert<single_path_symex_checkert>"
    [] stop_on_fail /\ path_exploration = "multi" /\ ~fault_localization ->
         "stop_on_fail_verifiert<multi_path_symex_checkert>"
    [] stop_on_fail /\ path_exploration = "multi" /\ fault_localization ->
         "stop_on_fail_verifier_with_fault_localizationt<multi_path_symex_checkert>"
    [] ~stop_on_fail /\ path_exploration = "single" ->
         "all_properties_verifier_with_trace_storaget<single_path_symex_checkert>"
    [] ~stop_on_fail /\ path_exploration = "multi" /\ ~fault_localization ->
         "all_properties_verifier_with_trace_storaget<multi_path_symex_checkert>"
    [] ~stop_on_fail /\ path_exploration = "multi" /\ fault_localization ->
         "all_properties_verifier_with_fault_localizationt<multi_path_symex_checkert>"

\* the axes of the table, read from the options
StopOnFail == get_bool_option(options, "stop-on-fail")

PathExploration ==
  IF get_bool_option(options, "paths") THEN "single" ELSE "multi"

FaultLocalization == get_bool_option(options, "localize-faults")

\* C9: in StandardVerify the verifier object created is the one of the
\* table row of (stop-on-fail, paths, localize-faults), and it is the only
\* verifier object the session creates
C9_StrategyTable ==
  mode = "StandardVerify"
    => /\ verifier = StrategyTable(StopOnFail, PathExploration,
                                   FaultLocalization)
       /\ Cardinality(CallsOf(VerifierTypes)) = 1
       /\ \A i \in CallsOf(VerifierTypes) : trace[i] = verifier

\* the row (true, multi, true) has been selected and run
C9_Witness ==
  /\ mode = "StandardVerify"
  /\ pc = "done"
  /\ StopOnFail
  /\ PathExploration = "multi"
  /\ FaultLocalization
  /\ verifier = "stop_on_fail_verifier_with_fault_localizationt<multi_path_symex_checkert>"
  /\ Called("(*verifier)()")

----------------------------------------------------------------------------
(* C10 *)

\* C10: a session whose options have localize-faults together with paths
\* never creates or runs the verifier of doit
C10_SinglePathLocalizationRejected ==
  (FaultLocalization /\ PathExploration = "single")
    => /\ verifier = "nullptr"
       /\ mode # "StandardVerify"
       /\ ~Called("(*verifier)()")


----------------------------------------------------------------------------
(* C11 *)

\* the number of times a call of S was made
Count(S) == Cardinality(CallsOf(S))

\* process_goto_program has run to its last stage
PipelineCompleted ==
  /\ Called("initialize_goto_model")
  /\ Count({"remove_asm"}) = 1
  /\ Count({"label_properties"}) = 1
  /\ Count({"remove_skip"}) = 2
  /\ env.instrument_cover_goals # "error"

\* C11: in a StandardVerify session the pipeline has completed, then one
\* verifier object was created, then it was run once, then its report was
\* requested once, and the exit status is result_to_exit_code of the result
\* of that run and of nothing else
C11_StandardVerifyOrder ==
  mode = "StandardVerify"
    => /\ PipelineCompleted
       /\ Count(VerifierTypes) = 1
       /\ AllBefore(StageCalls \cup {"initialize_goto_model"}, VerifierTypes)
       /\ Count({"verifier()"}) = 0
       /\ Count({"(*verifier)()"}) = (IF pc = "done" THEN 1 ELSE 0)
       /\ Count({"verifier->report()"}) = (IF pc = "done" THEN 1 ELSE 0)
       /\ AllBefore(VerifierTypes, {"(*verifier)()"})
       /\ AllBefore({"(*verifier)()"}, {"verifier->report()"})
       /\ pc = "done" => /\ env.verifier \in Answers.verifier
                         /\ exit_code = result_to_exit_code(env.verifier)
       /\ pc # "done" => exit_code = "none"

\* a StandardVerify session has run its verifier, which found a failing
\* property, and has reported
C11_Witness ==
  /\ mode = "StandardVerify"
  /\ pc = "done"
  /\ env.verifier = "FAIL"
  /\ exit_code = "CPROVER_EXIT_VERIFICATION_UNSAFE"
  /\ trace[Len(trace)] = "verifier->report()"
  /\ trace[Len(trace) - 1] = "(*verifier)()"


----------------------------------------------------------------------------
(* C12 *)

\* the calls of the cover block of doit
CoverageCalls ==
  << CoverVerifier, "verifier()", "verifier.report()",
     "c_test_input_generatort", "test_generator(verifier.get_traces())" >>

\* the calls that invoke the test-input generator
GeneratorCalls ==
  {"c_test_input_generatort", "test_generator(verifier.get_traces())"}

\* C12: a session is in Coverage mode exactly when it has called the
\* cover-goals verifier or the test-input generator; it has then completed
\* the pipeline with coverage instrumentation, and after the pipeline it has
\* created the cover-goals verifier, run it once, requested its report and
\* invoked the generator on its traces, in this order, each once; the
\* verifier cascade of StandardVerify was never entered
C12_CoverageOrder ==
  /\ (mode = "Coverage") = (CallsOf({CoverVerifier} \cup GeneratorCalls) # {})
  /\ mode = "Coverage"
       => /\ PipelineCompleted
          /\ Count({"instrument_cover_goals"}) = 1
          /\ env.instrument_cover_goals = "ok"
          /\ AllBefore({"instrument_cover_goals"}, {"label_properties"})
          /\ Len(trace) >= 5
          /\ SubSeq(trace, Len(trace) - 4, Len(trace)) = CoverageCalls
          /\ \A k \in 1..5 : Count({CoverageCalls[k]}) = 1
          /\ AllBefore(StageCalls \cup {"initialize_goto_model"},
                       {CoverVerifier})
          /\ AllBefore({"verifier()"}, GeneratorCalls)
          /\ Count(VerifierTypes) = 1
          /\ verifier = "nullptr"
          /\ Count({"(*verifier)()", "verifier->report()"}) = 0
          /\ pc = "done"
          /\ exit_code = "CPROVER_EXIT_SUCCESS"

\* a Coverage session has instrumented the cover goals, run the cover-goals
\* verifier and generated the test inputs
C12_Witness ==
  /\ mode = "Coverage"
  /\ pc = "done"
  /\ isset("cover")
  /\ Called("instrument_cover_goals")
  /\ trace[Len(trace)] = "test_generator(verifier.get_traces())"


----------------------------------------------------------------------------
(* C13 *)

\* get_command_line_options has returned with the options filled
Configured == pc # "doit" /\ DOMAIN options # {}

----------------------------------------------------------------------------
(* C14 *)

\* one of the four flags that ask for a trace is given
TraceFlagGiven ==
  isset("trace") \/ isset("compact-trace") \/ isset("stack-trace")
    \/ isset("stop-on-fail")

\* C14: after validation trace is true whenever trace, compact-trace,
\* stack-trace or stop-on-fail is given, or the report format is not plain
\* and cover is not given; with a report format that is not plain, cover
\* given and none of the four flags, trace is left unset unless
\* graphml-witness sets it
C14_TraceForced ==
  Configured
    => /\ (TraceFlagGiven \/ (get_ui(cmdline) # "PLAIN" /\ ~isset("cover")))
            => get_option(options, "trace") = "1"
       /\ (get_ui(cmdline) # "PLAIN" /\ isset("cover") /\ ~TraceFlagGiven
             /\ ~isset("graphml-witness"))
            => ~is_set(options, "trace")
       /\ is_set(options, "trace")
            => \/ TraceFlagGiven
               \/ (get_ui(cmdline) # "PLAIN" /\ ~isset("cover"))
               \/ isset("graphml-witness")

\* the report format is JSON, neither cover nor one of the four flags is
\* given, and trace is true
C14_Witness ==
  /\ Configured
  /\ get_ui(cmdline) = "JSON_UI"
  /\ ~isset("cover")
  /\ ~TraceFlagGiven
  /\ ~isset("graphml-witness")
  /\ get_bool_option(options, "trace")


----------------------------------------------------------------------------
(* C15 *)

SolverFlags == {"boolector", "cprover-smt2", "mathsat", "cvc4", "yices", "z3"}

SolverGiven == \E f \in SolverFlags : isset(f)

\* C15: after validation every solver flag given has its option and smt2
\* true; with smt2 and no solver flag, generic is set when outfile is given
\* and z3 otherwise; with a solver flag neither generic nor the default is
\* added; without smt2 and without a solver flag none of generic, z3 and
\* smt2 is set
C15_SolverResolution ==
  Configured
    => /\ \A f \in SolverFlags :
            isset(f) => /\ get_option(options, f) = "1"
                        /\ get_option(options, "smt2") = "1"
       /\ (isset("smt2") /\ ~SolverGiven)
            => /\ get_option(options, "smt2") = "1"
               /\ IF isset("outfile")
                    THEN /\ get_option(options, "generic") = "1"
                         /\ ~is_set(options, "z3")
                    ELSE /\ get_option(options, "z3") = "1"
                         /\ ~is_set(options, "generic")
       /\ SolverGiven
            => /\ ~is_set(options, "generic")
               /\ \A f \in SolverFlags : is_set(options, f) <=> isset(f)
       /\ (~isset("smt2") /\ ~SolverGiven)
            => /\ ~is_set(options, "generic")
               /\ ~is_set(options, "smt2")
               /\ \A f \in SolverFlags : ~is_set(options, f)

\* smt2 and an output file are given without a solver, and generic is set
C15_Witness ==
  /\ Configured
  /\ isset("smt2")
  /\ isset("outfile")
  /\ ~SolverGiven
  /\ get_bool_option(options, "generic")
  /\ ~is_set(options, "z3")


----------------------------------------------------------------------------
(* C16 *)

\* the flags that switch a default off, each with its option
NoFlags ==
  { <<"no-assertions", "assertions">>,
    <<"no-assumptions", "assumptions">>,
    <<"no-propagation", "propagation">>,
    <<"no-simplify", "simplify">>,
    <<"no-simplify-if", "simplify-if">>,
    <<"no-sat-preprocessor", "sat-preprocessor">>,
    <<"no-pretty-names", "pretty-names">> }

\* C16: after validation each of assertions, assumptions, propagation,
\* simplify, simplify-if, sat-preprocessor and pretty-names is true exactly
\* when its no- flag is not given, and arrays-uf is "auto" exactly when
\* neither arrays-uf-always nor arrays-uf-never is given and is the value
\* asked for otherwise
C16_DerivedDefaults ==
  Configured
    => /\ \A p \in NoFlags :
            /\ get_option(options, p[2]) = (IF isset(p[1]) THEN "0" ELSE "1")
            /\ get_bool_option(options, p[2]) <=> ~isset(p[1])
       /\ (get_option(options, "arrays-uf") = "auto")
            <=> (~isset("arrays-uf-always") /\ ~isset("arrays-uf-never"))
       /\ isset("arrays-uf-always")
            => get_option(options, "arrays-uf") = "always"
       /\ (isset("arrays-uf-never") /\ ~isset("arrays-uf-always"))
            => get_option(options, "arrays-uf") = "never"

\* no-simplify-if and arrays-uf-never are given: simplify-if is false,
\* arrays-uf is "never" and the other defaults stand
C16_Witness ==
  /\ Configured
  /\ isset("no-simplify-if")
  /\ isset("arrays-uf-never")
  /\ get_option(options, "simplify-if") = "0"
  /\ get_option(options, "arrays-uf") = "never"
  /\ get_option(options, "assertions") = "1"
  /\ get_option(options, "simplify") = "1"


----------------------------------------------------------------------------
(* C17 *)

\* the calls that open, identify, parse or print the input file
FileCalls ==
  { "std::ifstream infile", "get_language_from_filename",
    "language->set_language_options", "language->set_message_handler",
    "language->parse", "language->show_parse", "language->preprocess" }

\* the session is in the show-parse-tree block and was not given exactly
\* one input file that is not a goto binary
NotOneSource ==
  /\ mode = "ShowParseTree"
  /\ env.args # "1" \/ env.file = "goto_binary"

\* C17 as stated: the session then ends with the usage-error status, with
\* no file opened or parsed and no representation built
C17_AsStated ==
  NotOneSource
    => /\ exit_code = "CPROVER_EXIT_USAGE_ERROR"
       /\ CallsOf(FileCalls) = {}
       /\ NoRepresentationWork

\* C17: the session then ends with the error "Please give exactly one
\* source file" and the status CPROVER_EXIT_INCORRECT_TASK, with no file
\* opened or parsed and no representation built; the parse tree is printed
\* only for exactly one input file that is not a goto binary
C17_ParseTreeNeedsOneSource ==
  /\ NotOneSource
       => /\ pc = "done"
          /\ exit_code = "CPROVER_EXIT_INCORRECT_TASK"
          /\ trace[Len(trace)] = "error: Please give exactly one source file"
          /\ CallsOf(FileCalls) = {}
          /\ NoRepresentationWork
  /\ Called("language->show_parse")
       => /\ mode = "ShowParseTree"
          /\ env.args = "1"
          /\ env.file = "source"
          /\ exit_code = "CPROVER_EXIT_SUCCESS"
          /\ NoRepresentationWork

\* show-parse-tree was given a goto binary and has ended with the error
C17_Witness ==
  /\ mode = "ShowParseTree"
  /\ env.args = "1"
  /\ env.file = "goto_binary"
  /\ pc = "done"
  /\ trace = << "is_goto_binary", "error: Please give exactly one source file" >>
  /\ exit_code = "CPROVER_EXIT_INCORRECT_TASK"


----------------------------------------------------------------------------
(* C18 *)

\* get_goto_program has been called with no input file on the command line
NoInputAtConstruction ==
  /\ Configured
  /\ DoitBranch(cmdline) = "get_goto_program"
  /\ pc # "configured"
  /\ env.args = "0"

\* C18: a session that calls get_goto_program with no input file ends there
\* with the error "Please provide a program to verify": no goto model is
\* built, no stage runs, no artifact is printed, no verifier is created or
\* run, and the status is CPROVER_EXIT_INCORRECT_TASK, which is not success
C18_NoInputIsFatal ==
  NoInputAtConstruction
    => /\ pc = "done"
       /\ trace = << "error: Please provide a program to verify" >>
       /\ NoRepresentationWork
       /\ CallsOf(Artifacts) = {}
       /\ mode = "none"
       /\ exit_code = "CPROVER_EXIT_INCORRECT_TASK"
       /\ exit_code \notin {"CPROVER_EXIT_SUCCESS",
                            "CPROVER_EXIT_VERIFICATION_SAFE"}

\* a session without an input file has ended in get_goto_program
C18_Witness ==
  /\ NoInputAtConstruction
  /\ pc = "done"
  /\ exit_code = "CPROVER_EXIT_INCORRECT_TASK"
  /\ trace = << "error: Please provide a program to verify" >>


----------------------------------------------------------------------------
(* C19 *)

\* the two variants of the reachability slicer
FbSlicers == {"reachability_slicer(property, fb)", "reachability_slicer(fb)"}

PlainSlicers == {"reachability_slicer(property)", "reachability_slicer"}

\* process_goto_program has been given both reachability options
BothSlices ==
  /\ get_bool_option(options, "reachability-slice-fb")
  /\ get_bool_option(options, "reachability-slice")

----------------------------------------------------------------------------
(* C20 *)

\* C20: once get_command_line_options has returned, no step of the session
\* changes the options: the branches of doit, get_goto_program,
\* process_goto_program, set_properties, the creation of the verifier and
\* its run all leave every option as it was
C20_OptionsImmutable ==
  [][pc # "doit" => options' = options]_vars

\* a StandardVerify session has run to its end on the options that
\* get_command_line_options derived from stop-on-fail and full-slice
C20_Witness ==
  /\ mode = "StandardVerify"
  /\ pc = "done"
  /\ isset("stop-on-fail")
  /\ isset("full-slice")
  /\ Called("full_slicer")
  /\ Called("verifier->report()")
  /\ options = get_command_line_options(cmdline)
  /\ get_option(options, "trace") = "1"


----------------------------------------------------------------------------
(* C21 *)

\* the messages of get_command_line_options before exit(USAGE_ERROR)
ConfigurationMessages ==
  { "usage_error",
    "--cover and --unwinding-assertions must not be given together",
    "--no-array-field-sensitivity and --max-field-sensitivity-array-size must not be given together",
    "--partial-loops and --unwinding-assertions must not be given together",
    "--reachability-slice and --reachability-slice-fb must not be given together",
    "--slice-by-trace has been removed",
    "--smt1 is no longer supported" }

\* the messages of the show-parse-tree block and of get_goto_program
InputMessages ==
  { "error: Please give exactly one source file",
    "error: failed to open input file",
    "error: failed to figure out type of file",
    "error: PARSING ERROR",
    "error: Please provide a program to verify" }

\* every error message of the session
ErrorMessages ==
  ConfigurationMessages \cup InputMessages
    \cup { "error: no support for hardware modules",
           "error: Please provide one program to preprocess",
           "error: PREPROCESSING ERROR" }

\* get_command_line_options has rejected the command line
ConfigurationError == CallsOf(ConfigurationMessages) # {}

\* the show-parse-tree block or get_goto_program has rejected the input
InputError ==
  /\ mode \in {"ShowParseTree", "none"}
  /\ CallsOf(InputMessages) # {}

\* process_goto_program has returned true
PipelineFailure == env.instrument_cover_goals = "error"

\* the three kinds of error end the session with three statuses, none of
\* them a status of success; an error is logged at most once
ErrorStatuses ==
  /\ ConfigurationError
       => /\ pc = "done"
          /\ exit_code = "CPROVER_EXIT_USAGE_ERROR"
          /\ Len(trace) = 1
  /\ InputError
       => /\ pc = "done"
          /\ exit_code = "CPROVER_EXIT_INCORRECT_TASK"
          /\ trace[Len(trace)] \in InputMessages
  /\ PipelineFailure
       => /\ pc = "done"
          /\ exit_code = "CPROVER_EXIT_INTERNAL_ERROR"
          /\ trace[Len(trace)] = "instrument_cover_goals"
          /\ Count({"instrument_cover_goals"}) = 1
  /\ Count(ErrorMessages) <= 1
  /\ (ConfigurationError \/ InputError \/ PipelineFailure)
       => exit_code \notin {"CPROVER_EXIT_SUCCESS",
                            "CPROVER_EXIT_VERIFICATION_SAFE"}
  /\ ~(ConfigurationError /\ InputError)
  /\ ~(ConfigurationError /\ PipelineFailure)
  /\ ~(InputError /\ PipelineFailure)
  /\ (exit_code # "none") <=> (pc = "done")

----------------------------------------------------------------------------
(* C22 *)

\* the calls of process_goto_program in a log, in order
StagesOf(log) == SelectSeq(log, LAMBDA c : c \in StageCalls)

\* the second session is past process_goto_program
SecondPipelineRun ==
  /\ run = 2
  /\ pc \in {"processed", "properties_set", "selected", "done"}
  /\ Called("remove_asm")

----------------------------------------------------------------------------
(* C23 *)

\* the stages process_goto_program calls whatever the options, up to the
\* first remove_skip
UnconditionalStages ==
  { "remove_asm", "link_to_library(cprover_cpp_library_factory)",
    "link_to_library(cprover_c_library_factory)", "remove_function_pointers",
    "mm_io", "instrument_preconditions", "remove_returns", "remove_vector",
    "remove_complex", "rewrite_union", "goto_check",
    "adjust_float_expressions", "add_failed_symbols", "goto_functions.update",
    "goto_functions.compute_loop_numbers" }

\* 1 when the condition holds, 0 otherwise
Once(b) == IF b THEN 1 ELSE 0

\* C23: in a run of process_goto_program every stage that does not depend
\* on an option is called once; string_instrumentation and string_abstraction
\* are called, in this order, exactly when string-abstraction is true,
\* nondet_static exactly when nondet-static is, remove_unused_functions
\* exactly when drop-unused-functions is, instrument_cover_goals exactly
\* when cover is set; in a run that gets past coverage instrumentation
\* label_properties is called once and the full or property slicer exactly
\* when full-slice is true; remove_skip is called once before
\* instrument_cover_goals and once more as the last call of a run that
\* returns success
C23_StagesFollowOptions ==
  pc # "goto_model"
    => /\ \A s \in UnconditionalStages : Count({s}) = 1
       /\ Count({"string_instrumentation"})
            = Once(get_bool_option(options, "string-abstraction"))
       /\ Count({"string_abstraction"})
            = Once(get_bool_option(options, "string-abstraction"))
       /\ AllBefore({"string_instrumentation"}, {"string_abstraction"})
       /\ Called("string_abstraction") => Called("string_instrumentation")
       /\ Count({"nondet_static"})
            = Once(get_bool_option(options, "nondet-static"))
       /\ Count({"remove_unused_functions"})
            = Once(get_bool_option(options, "drop-unused-functions"))
       /\ Count({"instrument_cover_goals"}) = Once(is_set(options, "cover"))
       /\ Count({"get_cover_config"}) = Once(is_set(options, "cover"))
       /\ \E i \in CallsOf({"remove_skip"}) :
            /\ \A j \in CallsOf(UnconditionalStages) : j < i
            /\ \A j \in CallsOf({"instrument_cover_goals"}) : i < j
       /\ pc = "processed"
            => /\ Count({"label_properties"}) = 1
               /\ Count({"property_slicer", "full_slicer"})
                    = Once(get_bool_option(options, "full-slice"))
               /\ Count({"remove_skip"}) = 2
               /\ trace[Len(trace)] = "remove_skip"
       /\ pc = "done"
            => /\ Count({"label_properties", "property_slicer",
                         "full_slicer"}) = 0
               /\ Count({"remove_skip"}) = 1

\* a run with string-abstraction and cover, without nondet-static,
\* drop-unused-functions and full-slice, has returned success
C23_Witness ==
  /\ pc = "processed"
  /\ get_bool_option(options, "string-abstraction")
  /\ is_set(options, "cover")
  /\ ~get_bool_option(options, "nondet-static")
  /\ ~get_bool_option(options, "full-slice")
  /\ Called("string_instrumentation")
  /\ Called("string_abstraction")
  /\ Called("instrument_cover_goals")
  /\ ~Called("nondet_static")
  /\ ~Called("full_slicer")
  /\ trace[Len(trace)] = "remove_skip"


----------------------------------------------------------------------------
(* C24 *)

\* the dumps that need the processed goto model
ProcessedDumps == {"show_loop_ids", "show_goto_functions", "show_properties"}

\* the calls of cbmc_parse_optionst::set_properties
PropertySelection == {"set_properties(claim)", "set_properties(property)"}

\* C24: the symbol table is shown right after initialize_goto_model, before
\* any stage of process_goto_program; the loop ids, the goto functions and
\* the properties are shown only after process_goto_program has run to its
\* last stage, so after compute_loop_numbers and label_properties; and the
\* properties are shown with no call of set_properties before
C24_ArtifactsAtFixedPoints ==
  /\ Called("show_symbol_table")
       => /\ trace = << "initialize_goto_model", "show_symbol_table" >>
          /\ CallsOf(StageCalls) = {}
  /\ \A a \in ProcessedDumps :
       Called(a)
         => /\ PipelineCompleted
            /\ Called("goto_functions.compute_loop_numbers")
            /\ AllBefore(StageCalls \cup {"initialize_goto_model"}, {a})
            /\ Count({a}) = 1
            /\ trace[Len(trace)] = a
  /\ Called("show_properties") => CallsOf(PropertySelection) = {}
  /\ AllBefore({"show_properties"}, PropertySelection)

\* the properties have been listed at the end of a complete pipeline, on a
\* command line that also names a property
C24_Witness ==
  /\ Called("show_properties")
  /\ isset("property")
  /\ pc = "done"
  /\ Called("label_properties")
  /\ Count({"remove_skip"}) = 2


----------------------------------------------------------------------------
(* C25 *)

\* the calls that are given the argument of `property` (or of `claim`)
PropertyUses ==
  { "reachability_slicer(property, fb)", "reachability_slicer(property)",
    "property_slicer", "set_properties(property)", "set_properties(claim)" }

\* C25: every call that is given the property names, the scoped
\* reachability slicers, the property slicer and set_properties of doit, is
\* made after label_properties has been called, and label_properties is
\* called once in the session, so never again after one of them
C25_LabelBeforePropertyUse ==
  /\ CallsOf(PropertyUses) # {} => Count({"label_properties"}) = 1
  /\ AllBefore({"label_properties"}, PropertyUses)
  /\ Count({"label_properties"}) <= 1
  /\ (pc \in {"properties_set", "selected"} /\ isset("property"))
       => Called("set_properties(property)")

\* a session with property and full-slice has called the property slicer
\* and set_properties, both after label_properties
C25_Witness ==
  /\ isset("property")
  /\ Called("label_properties")
  /\ Called("property_slicer")
  /\ Called("set_properties(property)")
  /\ AllBefore({"property_slicer"}, {"set_properties(property)"})


----------------------------------------------------------------------------
(* C26 *)

\* doit is in or past the cascade that creates the verifier
InCascade == mode = "StandardVerify"

\* C26: the last branch of the cascade is never taken: UNREACHABLE is not
\* executed and the session is not aborted; whatever the values of
\* stop-on-fail, paths and localize-faults, the cascade leaves a verifier
\* object in the pointer, and the pointer is not null when it is
\* dereferenced
C26_CascadeExhaustive ==
  /\ ~Called("UNREACHABLE")
  /\ exit_code # "aborted"
  /\ InCascade
       => /\ verifier # "nullptr"
          /\ verifier \in VerifierTypes
          /\ pc \in {"selected", "done"}
  /\ Called("(*verifier)()") => verifier # "nullptr"
  /\ (pc = "properties_set" /\ VerifyBranch(options) = "verify")
       => SelectVerifier(options) # "nullptr"

\* the cascade was entered with paths and localize-faults and without
\* stop-on-fail, and the verifier it created has been run
C26_Witness ==
  /\ InCascade
  /\ pc = "done"
  /\ ~StopOnFail
  /\ PathExploration = "single"
  /\ FaultLocalization
  /\ verifier = "all_properties_verifier_with_trace_storaget<single_path_symex_checkert>"
  /\ Called("(*verifier)()")


----------------------------------------------------------------------------
(* C27 *)

\* the modes that run a verifier object and discard its result
DiscardingModes == {"ProgramOnly", "FormulaExport", "Coverage"}

\* the statuses of success
SuccessStatuses == {"CPROVER_EXIT_SUCCESS", "CPROVER_EXIT_VERIFICATION_SAFE"}

\* C27: a ProgramOnly, FormulaExport or Coverage session has run its
\* verifier object once and has ended with CPROVER_EXIT_SUCCESS whatever the
\* result of the run; a StandardVerify session whose verifier has found a
\* failing property has ended with a status that is not one of success
C27_ResultDiscardedOrMapped ==
  /\ mode \in DiscardingModes
       => /\ pc = "done"
          /\ Count({"verifier()"}) = 1
          /\ env.verifier \in Answers.verifier
          /\ exit_code = "CPROVER_EXIT_SUCCESS"
  /\ (mode = "StandardVerify" /\ pc = "done" /\ env.verifier = "FAIL")
       => /\ exit_code = "CPROVER_EXIT_VERIFICATION_UNSAFE"
          /\ exit_code \notin SuccessStatuses

\* a FormulaExport session whose verifier has found a failing property has
\* ended with CPROVER_EXIT_SUCCESS
C27_Witness ==
  /\ mode = "FormulaExport"
  /\ pc = "done"
  /\ env.verifier = "FAIL"
  /\ Called("verifier()")
  /\ exit_code = "CPROVER_EXIT_SUCCESS"


----------------------------------------------------------------------------
(* C28 *)

\* preprocessing() was given one file that can be opened and for which
\* get_language_from_filename returns no language object
NoLanguageObject ==
  /\ mode = "Preprocess"
  /\ env.args = "1"
  /\ env.file \in {"unknown_language", "goto_binary"}

\* C28: in preprocess-only mode, when no language object is returned, the
\* session logs "failed to figure out type of file" and calls nothing on
\* the missing object: the null test comes before every use of the pointer
C28_NullCheckBeforeUse ==
  NoLanguageObject
    => /\ Called("error: failed to figure out type of file")
       /\ ~Called("nullptr->set_language_options")
       /\ exit_code # "crashed"

====
